---- MODULE Spec2Model ----
(***************************************************************************)
(* Verification model of the Spot On trip planner backend.                 *)
(*                                                                         *)
(*   Spec       one pass of EnrichmentAgent.execute / _extract_and_parse   *)
(*              (app/agents/enrichment.py): Phase 1, Phase 2, the Tavily   *)
(*              call counter and the enrichment patch.                     *)
(***************************************************************************)
EXTENDS Integers, Sequences, FiniteSets, TLC

\* ------------------------------------------------------------------------
\* Bounds of the model
\* ------------------------------------------------------------------------
MaxItems == 2
NSites == 1

\* ------------------------------------------------------------------------
\* Program constants (app/agents/enrichment.py)
\* ------------------------------------------------------------------------
TIMEOUT_SECONDS == 45
MAX_URLS_PER_BATCH == 20
TAVILY_CALL_CAP == 20
RESOLVE_ITEMS_CAP == 6
PHASE1_CAP == 4
BucketCap == 2
\* a reserve of two calls
ReserveCalls_two == 1 + 1
\* lines 289 and 296: `remaining < 4`
ReserveCalls == 4
MapUrlCap == 2

\* TAVILY_CALL_CAP is a class attribute that every use reads through self;
\* the pass is explored under the shipped value and under smaller values at
\* which the counter actually reaches the cap.
CallCaps == {0, 3, 5, TAVILY_CALL_CAP}

\* ------------------------------------------------------------------------
\* Values
\* ------------------------------------------------------------------------
None == "None"
Types == {"restaurant", "attraction", "hotel", "car_rental", "flight"}
Fields == {"menu_url", "reservation_url", "admission_price",
           "parking_details", "operating_hours"}
\* a value is tagged by the write that produced it
Vals == {"p1", "p2", "map", "prov"}

Min(a, b) == IF a < b THEN a ELSE b

\* a slice that keeps the whole list
Head_n_all(s, n) == s

\* s[:n]
Head_n(s, n) == SubSeq(s, 1, Min(Len(s), n))

\* `v in (None, "", [], {})`
IsEmptyVal(v) == v = None

EmptyDict == [f \in Fields |-> None]

\* _collect_items emits restaurants, travel spots, hotels, car rentals and
\* flights in this order
TypeRank(t) ==
    CASE t = "restaurant" -> 1
      [] t = "attraction" -> 2
      [] t = "hotel" -> 3
      [] t = "car_rental" -> 4
      [] t = "flight" -> 5

\* an item of _collect_items: its type, whether its name is non-empty,
\* whether its url matches _LOW_QUALITY_RE, and whether the producers kept
\* raw_content for its url (rc_map)
\* (name and url quality are read only for the three Phase 2 types; an item
\* without a name is taken with a plain url and no cached page)
ItemKinds ==
    { k \in [type : Types, named : BOOLEAN, lowq : BOOLEAN, cached : BOOLEAN] :
        /\ k.type \in {"car_rental", "flight"} => k.named /\ ~k.lowq
        /\ ~k.named => ~k.lowq /\ ~k.cached }

ItemLists ==
    UNION { { s \in [1..n -> ItemKinds] :
                \A i \in 1..n : \A j \in 1..n :
                    i < j => TypeRank(s[i].type) <= TypeRank(s[j].type) } :
            n \in 0..MaxItems }

\* the fields a page of an item of type t can yield
TypeFields(t) ==
    CASE t = "restaurant" -> {"menu_url", "reservation_url"}
      [] t = "attraction" -> {"admission_price", "operating_hours"}
      [] t = "hotel" -> {"parking_details"}
      [] OTHER -> {"operating_hours"}

\* result of _parse_page_with_llm: None (no content, LLM error) or the dump
\* of the parsed details, every field present, the unfilled ones None
ParseOutcomes(t) ==
    { [ok |-> FALSE, filled |-> {}] } \cup
    { [ok |-> TRUE, filled |-> S] : S \in SUBSET TypeFields(t) }

ParseDict(o, v) == [f \in Fields |-> IF f \in o.filled THEN v ELSE None]

Sites == 1..NSites
PageKinds == {"menu", "reserve", "ticket", "parking", "root"}

VARIABLES
    items,              \* items handed to execute (state of the producers)
    skip_enrichment,    \* state["skip_enrichment"]
    call_cap,           \* self.TAVILY_CALL_CAP
    pc,                 \* position of the coroutine
    tavily_calls,       \* the nonlocal counter of _extract_and_parse
    dispatched,         \* Search-Service calls started in this pass
    refused,            \* reservations _take_call refused
    fallback_items,     \* ids sent to the Phase 1 extract call
    valid_pairs,        \* ids with a page to parse in Phase 1
    enriched,           \* the patch: item id -> field -> value
    enriched_keys,      \* keys of the patch
    resolve_candidates, \* ids picked for Phase 2
    ci,                 \* index of the Phase 2 loop
    canon,              \* canonical site of the current item, 0 for none
    resolved_targets,   \* id -> field -> value
    urls_to_extract,    \* <<[url, id]>>, url_to_item in list order
    pages2,             \* pages returned by the Phase 2 extract
    result              \* what execute returned

rvars == <<items, skip_enrichment, call_cap, pc, tavily_calls, dispatched,
           refused, fallback_items, valid_pairs, enriched, enriched_keys,
           resolve_candidates, ci, canon, resolved_targets, urls_to_extract,
           pages2, result>>

\* ---- one run of the graph (graph/graph.py, main.py _execute_run) ----
VARIABLES
    run_status,         \* status of the run document
    active,             \* nodes of the current superstep
    npc,                \* node -> idle, pending, running, ended, raised, cancelled
    nout,               \* node -> what the node returned in this superstep
    agent_statuses,     \* state key merged with operator.or_
    warnings,           \* state key merged with operator.add: the writers
    g_items,            \* producer -> number of items in the state
    runs,               \* node -> times the node was started
    enr_input,          \* the state the EnrichmentAgent node was started with
    raised_by,          \* node whose exception left graph.ainvoke
    raise_cause,        \* where that exception came from
    has_final,          \* final_output is in the state
    g_input,            \* what the run document holds: constraints, prompt, nothing
    constraints,        \* state key constraints: empty, given, parsed, unknown
    task,               \* position of the run's _execute_run task
    opt_skip            \* options.skip_enrichment of the run document

gvars == <<run_status, active, npc, nout, agent_statuses, warnings, g_items,
           runs, enr_input, raised_by, raise_cause, has_final, g_input,
           constraints, task, opt_skip>>

\* ---- merging a patch into a producer's item (quality_split.py,
\* aggregate_results.py) ----
VARIABLES
    m_pc,               \* input, merged
    m_item,             \* the producer's item: field -> value or Absent
    m_patch,            \* the patch of the item: field -> value or Absent
    m_split,            \* the item _merge_enriched returned
    m_final             \* the item aggregate_results put in final_output

mvars == <<m_pc, m_item, m_patch, m_split, m_final>>

\* ---- quality_split over the items of one run (quality_split.py) ----
VARIABLES
    q_pc,               \* input, done
    q_state,            \* category -> the list of the category's items
    q_enriched,         \* enriched_data: item id -> patch
    q_refs,             \* state["references"]: number of records
    q_out,              \* what quality_split returned
    q_probe             \* a call of _has_required: category and result

qvars == <<q_pc, q_state, q_enriched, q_refs, q_out, q_probe>>

\* ---- BaseAgent._dedup_by_url_and_title over one list of search results
\* (base.py) ----
VARIABLES
    d_pc,               \* input, done, done_url, done_name
    d_items,            \* the list given
    d_unique,           \* the list _dedup_by_url_and_title returned
    d_by_url,           \* the list _dedup_by_url returned
    d_by_name,          \* the list _dedup_by_name_and_url returned
    d_top_n             \* the top_n given to _dedup_by_name_and_url

dvars == <<d_pc, d_items, d_unique, d_by_url, d_by_name, d_top_n>>

\* ---- canonicalize_url on one url (utils/dedup.py) ----
VARIABLES
    u_pc,               \* input, once, twice
    u_url,              \* the url given
    u_once,             \* canonicalize_url(u_url)
    u_twice             \* canonicalize_url(u_once)

uvars == <<u_pc, u_url, u_once, u_twice>>

\* ---- two runs inside EnrichmentAgent._extract_and_parse of the one
\* enrichment_agent instance (enrichment.py 203-373, graph.py 54-59) ----
VARIABLES
    c_pc,               \* run -> start, running, returned
    c_tavily_calls,     \* frame -> the counter tavily_calls
    c_enriched,         \* frame -> the patch: set of [id, by]
    c_dispatched,       \* run -> Search-Service calls the run made
    c_refused,          \* run -> reservations refused to the run
    c_written,          \* run -> ids the run wrote a patch entry for
    c_result            \* run -> the patch _extract_and_parse returned

cvars == <<c_pc, c_tavily_calls, c_enriched, c_dispatched, c_refused,
           c_written, c_result>>

\* ---- one call of gather_with_timeout (graph/timeout.py) ----
VARIABLES
    t_pc,               \* waiting, returned
    t_coros,            \* position -> pending, raised, cancelled or a value
    t_how,              \* how the call ended: gathered or timeout
    t_results           \* the list returned

tvars == <<t_pc, t_coros, t_how, t_results>>

\* ---- one call of a wrapped node: _inner of _wrap_node and of _wrap_agent
\* (graph/graph.py) ----
VARIABLES
    w_name,             \* the node the wrapper was built for
    w_run_id,           \* state.get("runId") is set
    w_pc,               \* position of _inner
    w_fn,               \* how the node function ended: returned, raised, cancelled
    w_artifact,         \* the output holds what the wrapper stores as artifact
    w_events            \* what the call appended to run_events, in order

wvars == <<w_name, w_run_id, w_pc, w_fn, w_artifact, w_events>>

\* ---- the events of one run and one client of its event stream
\* (main.py run_events, _execute_run; db/mongo.py) ----
VARIABLES
    s_status,           \* status of the run document
    s_wpc,              \* position of the run: nodes, marked, handler, finished
    s_stamped,          \* events whose document was built: 1..s_stamped, in
                        \* the order of (ts, _id)
    s_visible,          \* events whose insert_one has completed
    s_term,             \* the terminal log event, 0 while there is none
    s_mode,             \* the stream: idle, backlog, live, poll, closed
    s_cursor,           \* cursor_ts, cursor_id: the last event read by cursor
    s_changes,          \* inserts the change stream holds for try_next
    s_seen,             \* seen_ids
    s_delivered,        \* events yielded to the client, in order
    s_saw_terminal,     \* saw_terminal of the backlog read
    s_idle,             \* idle
    s_fellback,         \* the except PyMongoError clause was entered
    s_gone              \* the client disconnected

svars == <<s_status, s_wpc, s_stamped, s_visible, s_term, s_mode, s_cursor,
           s_changes, s_seen, s_delivered, s_saw_terminal, s_idle,
           s_fellback, s_gone>>

\* ---- one call of TransportAgent.execute (agents/transport.py) ----
VARIABLES
    x_pc,               \* start, gather, joined, returned
    x_dest,             \* constraints hold a destination string
    x_in,               \* search -> what the Search Service and the LLM answer
    x_res,              \* search -> pending, Exception or the number of results
    x_out               \* what execute returned

xvars == <<x_pc, x_dest, x_in, x_res, x_out>>

\* the sub-models of the event sink and of the transport agent
evars == <<wvars, svars, xvars>>

\* the state of the pure functions and of the small sub-models
pvars == <<qvars, dvars, uvars, cvars, tvars, evars>>

vars == <<rvars, gvars, mvars, pvars>>

Ids == 1..Len(items)

NoResult == [returned |-> FALSE, how |-> "", status |-> "", has_data |-> FALSE,
             data |-> <<>>, data_keys |-> {}, warning |-> ""]

\* ------------------------------------------------------------------------
\* _take_call (enrichment.py 216-221)
\* ------------------------------------------------------------------------
\* a reservation that never refuses
_take_call_nocap(calls, cap) == [ok |-> TRUE, calls |-> calls + 1]

\* a reservation that does not count the call it grants
_take_call_nocount(calls, cap) ==
    IF calls >= cap THEN [ok |-> FALSE, calls |-> calls]
    ELSE [ok |-> TRUE, calls |-> calls]

_take_call(calls, cap) ==
    IF calls >= cap THEN [ok |-> FALSE, calls |-> calls]
    ELSE [ok |-> TRUE, calls |-> calls + 1]

\* ------------------------------------------------------------------------
\* _pick_resolve_candidates (enrichment.py 398-427)
\* ------------------------------------------------------------------------
Truthy(e, k, f) == k /\ ~IsEmptyVal(e[f])

Needs(t, e, k) ==
    CASE t = "restaurant" ->
            ~Truthy(e, k, "menu_url") \/ ~Truthy(e, k, "reservation_url")
      [] t = "attraction" -> ~Truthy(e, k, "admission_price")
      [] t = "hotel" -> ~Truthy(e, k, "parking_details")
      [] OTHER -> FALSE

IdSeq(n) == [i \in 1..n |-> i]

\* a bucket that takes every item of the type
Bucket_all(its, enr, keys, t) ==
    LET P(i) == its[i].type = t
    IN  SelectSeq(IdSeq(Len(its)), P)

Bucket(its, enr, keys, t) ==
    LET P(i) == /\ its[i].type = t
                /\ (Needs(t, enr[i], i \in keys) \/ its[i].lowq)
    IN  SelectSeq(IdSeq(Len(its)), P)

_pick_resolve_candidates(its, enr, keys) ==
    Head_n(Bucket(its, enr, keys, "restaurant"), BucketCap)
    \o Head_n(Bucket(its, enr, keys, "attraction"), BucketCap)
    \o Head_n(Bucket(its, enr, keys, "hotel"), BucketCap)

\* ------------------------------------------------------------------------
\* execute: what it returns (enrichment.py 80-113, 115-121)
\* ------------------------------------------------------------------------
\* an execute that hands back an empty patch
ExecuteResult_empty(enr, keys, n, how) ==
    [returned |-> TRUE, how |-> how, status |-> "partial",
     has_data |-> TRUE, data |-> [i \in 1..Len(enr) |-> EmptyDict],
     data_keys |-> {}, warning |-> "Only enriched"]

\* an execute that reports completed as soon as one item is enriched
ExecuteResult_nohalf(enr, keys, n, how) ==
    LET few == 2 * Cardinality(keys) < n
    IN  [returned |-> TRUE, how |-> how,
         status |-> IF Cardinality(keys) > 0 THEN "completed" ELSE "partial",
         has_data |-> TRUE, data |-> enr, data_keys |-> keys,
         warning |-> IF few THEN "Only enriched" ELSE ""]

\* lines 97-113, for the patch returned by _extract_and_parse
ExecuteResult(enr, keys, n, how) ==
    LET few == 2 * Cardinality(keys) < n
    IN  [returned |-> TRUE, how |-> how,
         status |-> IF Cardinality(keys) > 0 /\ ~few THEN "completed"
                    ELSE "partial",
         has_data |-> TRUE, data |-> enr, data_keys |-> keys,
         warning |-> IF few THEN "Only enriched" ELSE ""]

\* lines 80-86: with_timeout returned None
TimeoutResult ==
    [returned |-> TRUE, how |-> "timeout", status |-> "failed",
     has_data |-> TRUE, data |-> [i \in Ids |-> EmptyDict], data_keys |-> {},
     warning |-> "Enrichment timed out"]

\* lines 115-121: _failed_result
FailedResult ==
    [returned |-> TRUE, how |-> "exception", status |-> "failed",
     has_data |-> FALSE, data |-> [i \in Ids |-> EmptyDict], data_keys |-> {},
     warning |-> "enrichment_agent failed"]

\* lines 42-51 and 57-64
SkippedResult(with_data) ==
    [returned |-> TRUE, how |-> "skipped", status |-> "skipped",
     has_data |-> with_data, data |-> [i \in Ids |-> EmptyDict],
     data_keys |-> {}, warning |-> ""]

RInit ==
    /\ items \in ItemLists
    /\ skip_enrichment \in BOOLEAN
    /\ call_cap \in CallCaps
    /\ pc = "start"
    /\ tavily_calls = 0
    /\ dispatched = 0
    /\ refused = 0
    /\ fallback_items = <<>>
    /\ valid_pairs = <<>>
    /\ enriched = [i \in 1..Len(items) |-> EmptyDict]
    /\ enriched_keys = {}
    /\ resolve_candidates = <<>>
    /\ ci = 1
    /\ canon = 0
    /\ resolved_targets = [i \in 1..Len(items) |-> EmptyDict]
    /\ urls_to_extract = <<>>
    /\ pages2 = <<>>
    /\ result = NoResult

\* ------------------------------------------------------------------------
\* EnrichmentAgent.execute and _extract_and_parse, one action per stretch
\* of code between two awaits
\* ------------------------------------------------------------------------
NProc == Min(Len(items), MAX_URLS_PER_BATCH)

Range(s) == { s[k] : k \in 1..Len(s) }

AwaitStates == {"p1_extract", "p1_gather", "p2_search1", "p2_search2",
                "p2_map", "p2_extract", "p2_gather"}

\* the frame of _extract_and_parse is gone once execute has returned; the
\* patch and the counters stay for inspection
DropLocals ==
    /\ resolved_targets' = [i \in Ids |-> EmptyDict]
    /\ fallback_items' = <<>>
    /\ valid_pairs' = <<>>
    /\ resolve_candidates' = <<>>
    /\ ci' = 1
    /\ canon' = 0
    /\ urls_to_extract' = <<>>
    /\ pages2' = <<>>

\* lines 42-51
ExecuteSkip ==
    /\ pc = "start"
    /\ UNCHANGED <<gvars, mvars, pvars>>
    /\ skip_enrichment
    /\ pc' = "returned"
    /\ result' = SkippedResult(TRUE)
    /\ UNCHANGED <<items, skip_enrichment, call_cap, tavily_calls, dispatched,
                   refused, fallback_items, valid_pairs, enriched,
                   enriched_keys, resolve_candidates, ci, canon,
                   resolved_targets, urls_to_extract, pages2>>

\* lines 55-64
ExecuteNoItems ==
    /\ pc = "start"
    /\ UNCHANGED <<gvars, mvars, pvars>>
    /\ ~skip_enrichment
    /\ Len(items) = 0
    /\ pc' = "returned"
    /\ result' = SkippedResult(FALSE)
    /\ UNCHANGED <<items, skip_enrichment, call_cap, tavily_calls, dispatched,
                   refused, fallback_items, valid_pairs, enriched,
                   enriched_keys, resolve_candidates, ci, canon,
                   resolved_targets, urls_to_extract, pages2>>

\* Phase1Start without the gather of the cached pages' parses: Phase 2
\* starts while they are pending
Phase1Start_nogather ==
    /\ pc = "start"
    /\ UNCHANGED <<gvars, mvars, pvars>>
    /\ ~skip_enrichment
    /\ Len(items) > 0
    /\ LET vp == SelectSeq(IdSeq(NProc), LAMBDA i : items[i].cached)
           un == SelectSeq(IdSeq(NProc), LAMBDA i : ~items[i].cached)
           remaining_cap == PHASE1_CAP - Len(vp)
           want == Len(un) > 0 /\ remaining_cap > 0
           tk == _take_call(tavily_calls, call_cap)
       IN  IF want /\ tk.ok
           THEN /\ tavily_calls' = tk.calls
                /\ dispatched' = dispatched + 1
                /\ fallback_items' = Head_n(un, remaining_cap)
                /\ valid_pairs' = vp
                /\ pc' = "p1_extract"
                /\ UNCHANGED refused
           ELSE /\ refused' = IF want THEN refused + 1 ELSE refused
                /\ valid_pairs' = Head_n(vp, PHASE1_CAP)
                /\ pc' = "p2_pick"
                /\ UNCHANGED <<tavily_calls, dispatched, fallback_items>>
    /\ UNCHANGED <<items, skip_enrichment, call_cap, enriched, enriched_keys,
                   resolve_candidates, ci, canon, resolved_targets,
                   urls_to_extract, pages2, result>>

\* lines 72-78 and 214-262: the pass up to the Phase 1 extract call
Phase1Start ==
    /\ pc = "start"
    /\ UNCHANGED <<gvars, mvars, pvars>>
    /\ ~skip_enrichment
    /\ Len(items) > 0
    /\ LET vp == SelectSeq(IdSeq(NProc), LAMBDA i : items[i].cached)
           un == SelectSeq(IdSeq(NProc), LAMBDA i : ~items[i].cached)
           remaining_cap == PHASE1_CAP - Len(vp)
           want == Len(un) > 0 /\ remaining_cap > 0
           tk == _take_call(tavily_calls, call_cap)
       IN  IF want /\ tk.ok
           THEN /\ tavily_calls' = tk.calls
                /\ dispatched' = dispatched + 1
                /\ fallback_items' = Head_n(un, remaining_cap)
                /\ valid_pairs' = vp
                /\ pc' = "p1_extract"
                /\ UNCHANGED refused
           ELSE /\ refused' = IF want THEN refused + 1 ELSE refused
                /\ valid_pairs' = Head_n(vp, PHASE1_CAP)
                /\ pc' = IF vp # <<>> THEN "p1_gather" ELSE "p2_pick"
                /\ UNCHANGED <<tavily_calls, dispatched, fallback_items>>
    /\ UNCHANGED <<items, skip_enrichment, call_cap, enriched, enriched_keys,
                   resolve_candidates, ci, canon, resolved_targets,
                   urls_to_extract, pages2, result>>

\* lines 253-265: the extract call returns pages for some of the urls, or
\* raises and the except of line 261 swallows it
Phase1ExtractDone ==
    /\ pc = "p1_extract"
    /\ UNCHANGED <<gvars, mvars, pvars>>
    /\ \E raised \in BOOLEAN : \E got \in SUBSET Range(fallback_items) :
        /\ raised => got = {}
        /\ LET vp == valid_pairs \o
                     SelectSeq(fallback_items, LAMBDA i : i \in got)
           IN  /\ valid_pairs' = Head_n(vp, PHASE1_CAP)
               /\ pc' = IF vp # <<>> THEN "p1_gather" ELSE "p2_pick"
    /\ UNCHANGED <<items, skip_enrichment, call_cap, tavily_calls, dispatched,
                   refused, fallback_items, enriched, enriched_keys,
                   resolve_candidates, ci, canon, resolved_targets,
                   urls_to_extract, pages2, result>>

AllParseOutcomes == UNION { ParseOutcomes(t) : t \in Types }

\* lines 267-277: gather of the page parses, then enriched[id] = result
Phase1GatherDone ==
    /\ pc = "p1_gather"
    /\ UNCHANGED <<gvars, mvars, pvars>>
    /\ \E rs \in [1..Len(valid_pairs) -> AllParseOutcomes] :
        /\ \A k \in 1..Len(valid_pairs) :
              rs[k] \in ParseOutcomes(items[valid_pairs[k]].type)
        /\ enriched' =
              [i \in Ids |->
                  IF \E k \in 1..Len(valid_pairs) :
                        valid_pairs[k] = i /\ rs[k].ok
                  THEN ParseDict(rs[CHOOSE k \in 1..Len(valid_pairs) :
                                        valid_pairs[k] = i], "p1")
                  ELSE enriched[i]]
        /\ enriched_keys' = enriched_keys \cup
              { valid_pairs[k] : k \in { j \in 1..Len(valid_pairs) : rs[j].ok } }
    /\ pc' = "p2_pick"
    /\ UNCHANGED <<items, skip_enrichment, call_cap, tavily_calls, dispatched,
                   refused, fallback_items, valid_pairs, resolve_candidates,
                   ci, canon, resolved_targets, urls_to_extract, pages2,
                   result>>

\* lines 281-290: candidates and the reserve check
Phase2Pick ==
    /\ pc = "p2_pick"
    /\ UNCHANGED <<gvars, mvars, pvars>>
    /\ LET rc == Head_n(_pick_resolve_candidates(SubSeq(items, 1, NProc),
                                                 enriched, enriched_keys),
                        RESOLVE_ITEMS_CAP)
       IN  IF /\ rc # <<>>
              /\ tavily_calls < call_cap
              /\ call_cap - tavily_calls < ReserveCalls
           THEN /\ pc' = "returned"
                /\ result' = ExecuteResult(enriched, enriched_keys,
                                           NProc, "reserve")
                /\ DropLocals
           ELSE /\ pc' = "p2_loop"
                /\ resolve_candidates' = rc
                /\ ci' = 1
                /\ UNCHANGED <<result, fallback_items, valid_pairs, canon,
                               urls_to_extract, pages2, resolved_targets>>
    /\ UNCHANGED <<items, skip_enrichment, call_cap, tavily_calls, dispatched,
                   refused, enriched, enriched_keys>>

\* ------------------------------------------------------------------------
\* Phase 2 (enrichment.py 292-370)
\* ------------------------------------------------------------------------
CurItem == resolve_candidates[ci]

\* lines 361-368: resolved URL fields fill only what the patch lacks
MergeResolved(enr, rt) ==
    [i \in DOMAIN enr |->
        [f \in Fields |->
            IF ~IsEmptyVal(rt[i][f]) /\ IsEmptyVal(enr[i][f])
            THEN rt[i][f] ELSE enr[i][f]]]

MergeResolvedKeys(keys, rt) ==
    keys \cup { i \in DOMAIN rt : \E f \in Fields : ~IsEmptyVal(rt[i][f]) }

\* lines 361-370 and execute 88-113: merge the resolved fields and return
FinishPass(enr, keys) ==
    /\ pc' = "returned"
    /\ DropLocals
    /\ result' = ExecuteResult(MergeResolved(enr, resolved_targets),
                               MergeResolvedKeys(keys, resolved_targets),
                               NProc, "normal")

\* lines 316-326 after _resolve_canonical_urls returned (c, prov): record
\* the provider url, then map the canonical site if there is one
AfterResolve(c, prov) ==
    LET rt == IF prov
              THEN [resolved_targets EXCEPT
                       ![CurItem]["reservation_url"] = "prov"]
              ELSE resolved_targets
        tk == _take_call(tavily_calls, call_cap)
    IN  /\ resolved_targets' = rt
        /\ IF c = 0
           THEN /\ ci' = ci + 1
                /\ pc' = "p2_loop"
                /\ canon' = 0
                /\ UNCHANGED <<tavily_calls, dispatched, refused>>
           ELSE IF tk.ok
           THEN /\ tavily_calls' = tk.calls
                /\ dispatched' = dispatched + 1
                /\ canon' = c
                /\ pc' = "p2_map"
                /\ UNCHANGED <<ci, refused>>
           ELSE /\ refused' = refused + 1
                /\ ci' = ci + 1
                /\ pc' = "p2_loop"
                /\ canon' = 0
                /\ UNCHANGED <<tavily_calls, dispatched>>

\* lines 296-314 and 452-455, 473-476, 483-486: loop head up to the first
\* search of the item
Phase2Loop ==
    /\ pc = "p2_loop"
    /\ UNCHANGED <<gvars, mvars, pvars>>
    /\ LET tk == _take_call(tavily_calls, call_cap)
       IN  IF ci > Len(resolve_candidates)
              \/ call_cap - tavily_calls < ReserveCalls
           THEN /\ pc' = "p2_after"
                /\ UNCHANGED <<ci, tavily_calls, dispatched, refused>>
           ELSE IF items[CurItem].type \notin
                       {"restaurant", "attraction", "hotel"}
                   \/ ~items[CurItem].named
           THEN /\ ci' = ci + 1
                /\ pc' = "p2_loop"
                /\ UNCHANGED <<tavily_calls, dispatched, refused>>
           ELSE IF tk.ok
           THEN /\ tavily_calls' = tk.calls
                /\ dispatched' = dispatched + 1
                /\ pc' = "p2_search1"
                /\ UNCHANGED <<ci, refused>>
           ELSE /\ refused' = refused + 1
                /\ ci' = ci + 1
                /\ pc' = "p2_loop"
                /\ UNCHANGED <<tavily_calls, dispatched>>
    /\ UNCHANGED <<items, skip_enrichment, call_cap, fallback_items,
                   valid_pairs, enriched, enriched_keys, resolve_candidates,
                   canon, resolved_targets, urls_to_extract, pages2,
                   result>>

\* a search of _resolve_canonical_urls raises: nothing catches it before
\* execute's except (lines 115-121)
SearchRaises ==
    /\ pc \in {"p2_search1", "p2_search2"}
    /\ UNCHANGED <<gvars, mvars, pvars>>
    /\ pc' = "returned"
    /\ result' = FailedResult
    /\ DropLocals
    /\ UNCHANGED <<items, skip_enrichment, call_cap, tavily_calls, dispatched,
                   refused, enriched, enriched_keys>>

\* lines 455-463, 476-481, 486-491: the first search returns; _pick_best
\* finds a canonical site or none
Search1Done ==
    /\ pc = "p2_search1"
    /\ UNCHANGED <<gvars, mvars, pvars>>
    /\ \E c \in {0} \cup Sites :
        LET tk == _take_call(tavily_calls, call_cap)
        IN  IF items[CurItem].type = "restaurant"
            THEN IF tk.ok
                 THEN /\ tavily_calls' = tk.calls
                      /\ dispatched' = dispatched + 1
                      /\ canon' = c
                      /\ pc' = "p2_search2"
                      /\ UNCHANGED <<ci, refused, resolved_targets>>
                 ELSE /\ AfterResolve(c, FALSE)
            ELSE AfterResolve(c, FALSE)
    /\ UNCHANGED <<items, skip_enrichment, call_cap, fallback_items,
                   valid_pairs, enriched, enriched_keys, resolve_candidates,
                   urls_to_extract, pages2, result>>

\* lines 464-471: the reservation search returns
Search2Done ==
    /\ pc = "p2_search2"
    /\ UNCHANGED <<gvars, mvars, pvars>>
    /\ \E prov \in BOOLEAN : AfterResolve(canon, prov)
    /\ UNCHANGED <<items, skip_enrichment, call_cap, fallback_items,
                   valid_pairs, enriched, enriched_keys, resolve_candidates,
                   urls_to_extract, pages2, result>>

\* the subpages _pick_by_keywords can find for a type (lines 532-556)
MapKinds(t) ==
    CASE t = "restaurant" -> {"menu", "reserve"}
      [] t = "attraction" -> {"ticket"}
      [] t = "hotel" -> {"parking"}
      [] OTHER -> {}

\* lines 529-558: fields and extract_urls for the subpages found
MapFields(t, found) ==
    [f \in Fields |->
        IF t = "restaurant" /\ f = "menu_url" /\ "menu" \in found THEN "map"
        ELSE IF t = "restaurant" /\ f = "reservation_url"
                /\ "reserve" \in found THEN "map"
        ELSE None]

MapExtractUrls(t, site, found) ==
    LET us == (IF "menu" \in found THEN <<(<<site, "menu">>)>> ELSE <<>>)
              \o (IF "reserve" \in found THEN <<(<<site, "reserve">>)>> ELSE <<>>)
              \o (IF "ticket" \in found THEN <<(<<site, "ticket">>)>> ELSE <<>>)
              \o (IF "parking" \in found THEN <<(<<site, "parking">>)>> ELSE <<>>)
    IN  Head_n(IF us = <<>> THEN <<(<<site, "root">>)>> ELSE us, MapUrlCap)

\* lines 329-332: urls not yet in url_to_item are appended
RECURSIVE AddUrls(_, _, _)
AddUrls(urls, new, id) ==
    IF new = <<>> THEN urls
    ELSE AddUrls(IF \E k \in 1..Len(urls) : urls[k].url = Head(new)
                 THEN urls
                 ELSE Append(urls, [url |-> Head(new), id |-> id]),
                 Tail(new), id)

\* lines 511-558 and 328-332: the map call returns or raises (caught at 515)
MapDone ==
    /\ pc = "p2_map"
    /\ UNCHANGED <<gvars, mvars, pvars>>
    /\ \E raised \in BOOLEAN :
       \E found \in SUBSET MapKinds(items[CurItem].type) :
        /\ raised => found = {}
        /\ IF raised
           THEN UNCHANGED <<resolved_targets, urls_to_extract>>
           ELSE /\ resolved_targets' =
                      [resolved_targets EXCEPT ![CurItem] =
                          [f \in Fields |->
                              LET m == MapFields(items[CurItem].type, found)
                              IN  IF m[f] # None THEN m[f] ELSE @[f]]]
                /\ urls_to_extract' =
                      AddUrls(urls_to_extract,
                              MapExtractUrls(items[CurItem].type, canon, found),
                              CurItem)
    /\ ci' = ci + 1
    /\ canon' = 0
    /\ pc' = "p2_loop"
    /\ UNCHANGED <<items, skip_enrichment, call_cap, tavily_calls, dispatched,
                   refused, fallback_items, valid_pairs, enriched,
                   enriched_keys, resolve_candidates, pages2, result>>

\* lines 334-338 and 361-370: after the loop, the batch extract if any url
\* was discovered and the budget grants it
Phase2After ==
    /\ pc = "p2_after"
    /\ UNCHANGED <<gvars, mvars, pvars>>
    /\ LET tk == _take_call(tavily_calls, call_cap)
       IN  IF urls_to_extract # <<>> /\ tk.ok
           THEN /\ tavily_calls' = tk.calls
                /\ dispatched' = dispatched + 1
                /\ urls_to_extract' = Head_n(urls_to_extract, MAX_URLS_PER_BATCH)
                /\ pc' = "p2_extract"
                /\ UNCHANGED <<refused, result, fallback_items, valid_pairs,
                               resolve_candidates, ci, canon, pages2,
                               resolved_targets>>
           ELSE /\ refused' = IF urls_to_extract # <<>> THEN refused + 1
                              ELSE refused
                /\ FinishPass(enriched, enriched_keys)
                /\ UNCHANGED <<tavily_calls, dispatched>>
    /\ UNCHANGED <<items, skip_enrichment, call_cap, enriched, enriched_keys>>

\* lines 338-353: the batch extract returns the pages, or raises and is
\* caught at 339; with no page to parse the gather is empty.  A url missing
\* from the response changes the patch exactly as a page whose parse returns
\* None does (lines 349 and 355), which Phase2GatherDone covers.
Extract2Done ==
    /\ pc = "p2_extract"
    /\ UNCHANGED <<gvars, mvars, pvars>>
    /\ \E raised \in BOOLEAN :
        /\ LET pg == IF raised THEN <<>> ELSE IdSeq(Len(urls_to_extract))
           IN  IF pg = <<>>
               THEN FinishPass(enriched, enriched_keys)
               ELSE /\ pc' = "p2_gather"
                    /\ pages2' = pg
                    /\ UNCHANGED <<result, fallback_items, valid_pairs,
                                   resolve_candidates, ci, canon,
                                   urls_to_extract, resolved_targets>>
    /\ UNCHANGED <<items, skip_enrichment, call_cap, tavily_calls, dispatched,
                   refused, enriched, enriched_keys>>

\* lines 354-359: enriched.setdefault(id, {}).update(non-empty fields of r)
UpdatePatch(e, r) ==
    [f \in Fields |-> IF ~IsEmptyVal(r[f]) THEN r[f] ELSE e[f]]

RECURSIVE ApplyPages(_, _, _, _)
\* the pages of pgs from k on, applied to enr in order
ApplyPages(enr, pgs, rs, k) ==
    IF k > Len(pgs) THEN enr
    ELSE LET id == urls_to_extract[pgs[k]].id
         IN  ApplyPages(IF rs[k].ok
                        THEN [enr EXCEPT ![id] =
                                 UpdatePatch(@, ParseDict(rs[k], "p2"))]
                        ELSE enr,
                        pgs, rs, k + 1)

\* lines 353-370: gather of the subpage parses, the update of the patch,
\* the merge of the resolved fields, and the return
Phase2GatherDone ==
    /\ pc = "p2_gather"
    /\ UNCHANGED <<gvars, mvars, pvars>>
    /\ \E rs \in [1..Len(pages2) -> AllParseOutcomes] :
        /\ \A k \in 1..Len(pages2) :
              rs[k] \in ParseOutcomes(items[urls_to_extract[pages2[k]].id].type)
        /\ LET enr == ApplyPages(enriched, pages2, rs, 1)
               keys == enriched_keys \cup
                       { urls_to_extract[pages2[k]].id :
                            k \in { j \in 1..Len(pages2) : rs[j].ok } }
           IN  /\ enriched' = enr
               /\ enriched_keys' = keys
               /\ FinishPass(enr, keys)
    /\ UNCHANGED <<items, skip_enrichment, call_cap, tavily_calls, dispatched,
                   refused>>

\* execute 75-86: the 45 s deadline of with_timeout expires while the pass
\* is suspended in an await
Timeout ==
    /\ pc \in AwaitStates
    /\ UNCHANGED <<gvars, mvars, pvars>>
    /\ pc' = "returned"
    /\ result' = TimeoutResult
    /\ DropLocals
    /\ UNCHANGED <<items, skip_enrichment, call_cap, tavily_calls, dispatched,
                   refused, enriched, enriched_keys>>

RNext ==
    \/ ExecuteSkip
    \/ ExecuteNoItems
    \/ Phase1Start
    \/ Phase1ExtractDone
    \/ Phase1GatherDone
    \/ Phase2Pick
    \/ Phase2Loop
    \/ SearchRaises
    \/ Search1Done
    \/ Search2Done
    \/ MapDone
    \/ Phase2After
    \/ Extract2Done
    \/ Phase2GatherDone
    \/ Timeout

\* ------------------------------------------------------------------------
\* The graph (graph/graph.py build_graph) and one run of it (main.py)
\* ------------------------------------------------------------------------
MaxProduced == 1

MaxNodeRuns == 4

Producers == {"RestaurantAgent", "AttractionsAgent", "HotelAgent",
              "TransportAgent"}

\* the nodes registered with _wrap_node and with _wrap_agent (268-286)
WrappedNodes == {"ParseRequest", "AggregateResults"}

WrappedAgents == Producers \cup {"EnrichmentAgent"}

Nodes == WrappedNodes \cup WrappedAgents

END == "__end__"

\* the graph with an edge from EnrichmentAgent back to itself
Edges_loop ==
    {<<"ParseRequest", p>> : p \in Producers}
    \cup {<<p, "EnrichmentAgent">> : p \in Producers}
    \cup {<<"EnrichmentAgent", "EnrichmentAgent">>,
          <<"EnrichmentAgent", "AggregateResults">>,
          <<"AggregateResults", END>>}

\* the graph with TransportAgent after HotelAgent instead of ParseRequest
Edges_chained ==
    {<<"ParseRequest", p>> : p \in Producers \ {"TransportAgent"}}
    \cup {<<"HotelAgent", "TransportAgent">>}
    \cup {<<p, "EnrichmentAgent">> : p \in Producers}
    \cup {<<"EnrichmentAgent", "AggregateResults">>,
          <<"AggregateResults", END>>}

\* the graph with AggregateResults after the producers as well
Edges_early ==
    {<<"ParseRequest", p>> : p \in Producers}
    \cup {<<p, "EnrichmentAgent">> : p \in Producers}
    \cup {<<"HotelAgent", "AggregateResults">>,
          <<"EnrichmentAgent", "AggregateResults">>,
          <<"AggregateResults", END>>}

\* add_edge calls, graph.py 301-314
Edges ==
    {<<"ParseRequest", p>> : p \in Producers}
    \cup {<<p, "EnrichmentAgent">> : p \in Producers}
    \cup {<<"EnrichmentAgent", "AggregateResults">>,
          <<"AggregateResults", END>>}

\* the nodes triggered by the nodes that ran in a superstep: a node runs in
\* the superstep after any of its predecessors wrote
Successors(S) == {e[2] : e \in {d \in Edges : d[1] \in S}} \ {END}

\* the order in which the writes of one superstep are applied
NodeOrder == <<"ParseRequest", "RestaurantAgent", "AttractionsAgent",
               "HotelAgent", "TransportAgent", "EnrichmentAgent",
               "AggregateResults">>

\* what a node function hands to its wrapper
Outcome(raises, cause, status, warn, writes_items, nitems) ==
    [raises |-> raises, cause |-> cause, status |-> status, warn |-> warn,
     writes_items |-> writes_items, nitems |-> nitems]

NoOutcome == Outcome(FALSE, "", "", FALSE, FALSE, 0)

\* a failure result that carries the warning and no status
_failed_result_nostatus(cause) == Outcome(FALSE, cause, "", TRUE, FALSE, 0)

\* BaseAgent._failed_result (base.py 43-50): status failed and one warning,
\* no other key
_failed_result(cause) == Outcome(FALSE, cause, "failed", TRUE, FALSE, 0)

\* an execute without the except clause: the exception reaches the wrapper
OnException_reraise == Outcome(TRUE, "exception", "", FALSE, FALSE, 0)

\* the except clause that closes every agent's execute
\* (restaurant.py 94-100, attractions.py 102-108, hotel.py 104-110,
\* transport.py 102-108, enrichment.py 115-121)
OnException == _failed_result("exception")

\* parse_request and aggregate_results have no such clause: what they raise
\* reaches the wrapper
FnRaises == Outcome(TRUE, "exception", "", FALSE, FALSE, 0)

\* parse_request (parse.py 34-121)
parse_request(inp) ==
    CASE inp = "constraints" -> {Outcome(FALSE, "given", "", FALSE, FALSE, 0)}
      [] inp = "constraints_nodest" ->
            {Outcome(FALSE, "given_nodest", "", FALSE, FALSE, 0)}
      [] inp = "nothing" -> {Outcome(FALSE, "no_prompt", "", TRUE, FALSE, 0)}
      [] OTHER -> {Outcome(FALSE, "parsed", "", FALSE, FALSE, 0),
                   Outcome(FALSE, "llm_failed", "", TRUE, FALSE, 0)}

ConstraintsOf(cause) ==
    CASE cause = "given" -> "given"
      [] cause = "given_nodest" -> "nodest"
      [] cause = "no_prompt" -> "empty"
      [] cause = "parsed" -> "parsed"
      [] OTHER -> "unknown"

\* constraints without a destination string
NoDestination == {"empty", "nodest"}

\* RestaurantAgent, AttractionsAgent, HotelAgent: execute
SearchAgentOutcomes(n, cons) ==
    IF cons \in NoDestination THEN {_failed_result("missing_destination"), OnException}
    ELSE {_failed_result("search_timeout"), _failed_result("no_results"),
          _failed_result("llm_no_results"), OnException}
         \cup {Outcome(FALSE, "ok", "completed", FALSE, TRUE, k) :
                 k \in 1..MaxProduced}
         \cup IF n = "RestaurantAgent" THEN {}
              ELSE {Outcome(FALSE, "few", "partial", TRUE, TRUE, k) :
                      k \in 1..MaxProduced}

\* TransportAgent.execute (transport.py 26-108)
TransportOutcomes(cons) ==
    IF cons \in NoDestination THEN {_failed_result("missing_destination"), OnException}
    ELSE {_failed_result("both_failed"), OnException,
          Outcome(FALSE, "no_results", "completed", FALSE, TRUE, 0)}
         \cup {Outcome(FALSE, "one_failed", "partial", TRUE, TRUE, k) :
                 k \in 0..MaxProduced}
         \cup {Outcome(FALSE, "ok", "completed", FALSE, TRUE, k) :
                 k \in 1..MaxProduced}

Sum4(f) == f["RestaurantAgent"] + f["AttractionsAgent"] + f["HotelAgent"]
           + f["TransportAgent"]

\* EnrichmentAgent.execute as the graph sees it (enrichment.py 32-121)
EnrichmentOutcomes(n_items) ==
    IF n_items = 0
    THEN {Outcome(FALSE, "no_items", "skipped", FALSE, FALSE, 0), OnException}
    ELSE {Outcome(FALSE, "no_items", "skipped", FALSE, FALSE, 0),
          Outcome(FALSE, "ok", "completed", FALSE, FALSE, 0),
          Outcome(FALSE, "ok", "partial", FALSE, FALSE, 0),
          Outcome(FALSE, "few", "partial", TRUE, FALSE, 0),
          Outcome(FALSE, "timeout", "failed", TRUE, FALSE, 0),
          OnException}

\* aggregate_results (aggregate_results.py 11-100): final_output and status
aggregate_results == {Outcome(FALSE, "ok", "done", FALSE, FALSE, 0), FnRaises}

\* the keys of SpotOnState (state.py 7-45): the channels of the compiled
\* graph
SchemaKeys == {"runId", "prompt", "constraints", "restaurants", "travel_spots",
               "hotels", "car_rentals", "flights", "enriched_data",
               "agent_statuses", "warnings", "duration_ms", "status",
               "final_output"}

\* state.get(key) in a node, for a key of the initial state given to
\* graph.ainvoke (main.py 127-137): StateGraph(SpotOnState) keeps the keys of
\* its schema only, any other key of the input is dropped
StateGet(key, initial) == IF key \in SchemaKeys THEN initial ELSE FALSE

Outcomes(n) ==
    CASE n = "ParseRequest" -> parse_request(g_input) \cup {FnRaises}
      [] n = "TransportAgent" -> TransportOutcomes(constraints)
      [] n = "EnrichmentAgent" ->
            IF StateGet("skip_enrichment", opt_skip)
            THEN {Outcome(FALSE, "skip_flag", "skipped", FALSE, FALSE, 0)}
            ELSE EnrichmentOutcomes(Sum4(g_items))
      [] n = "AggregateResults" -> aggregate_results
      [] OTHER -> SearchAgentOutcomes(n, constraints)

GIdle ==
    /\ run_status = "idle"
    /\ active = {}
    /\ npc = [n \in Nodes |-> "idle"]
    /\ nout = [n \in Nodes |-> NoOutcome]
    /\ agent_statuses = [n \in Nodes |-> ""]
    /\ warnings = <<>>
    /\ g_items = [p \in Producers |-> 0]
    /\ runs = [n \in Nodes |-> 0]
    /\ enr_input = [started |-> FALSE, statuses |-> [n \in Nodes |-> ""],
                    items |-> [p \in Producers |-> 0]]
    /\ raised_by = "none"
    /\ raise_cause = "none"
    /\ has_final = FALSE
    /\ g_input = "nothing"
    /\ constraints = "empty"
    /\ task = "none"
    /\ opt_skip = FALSE

\* _execute_run before graph.ainvoke (main.py 94-137): the run document is
\* queued, the initial state holds the prompt and the constraints given
GInit ==
    /\ run_status = "queued"
    /\ active = {}
    /\ npc = [n \in Nodes |-> "idle"]
    /\ nout = [n \in Nodes |-> NoOutcome]
    /\ agent_statuses = [n \in Nodes |-> ""]
    /\ warnings = <<>>
    /\ g_items = [p \in Producers |-> 0]
    /\ runs = [n \in Nodes |-> 0]
    /\ enr_input = [started |-> FALSE, statuses |-> [n \in Nodes |-> ""],
                    items |-> [p \in Producers |-> 0]]
    /\ raised_by = "none"
    /\ raise_cause = "none"
    /\ has_final = FALSE
    /\ g_input \in {"constraints", "constraints_nodest", "prompt", "nothing"}
    /\ constraints = IF g_input = "constraints" THEN "given"
                     ELSE IF g_input = "constraints_nodest" THEN "nodest"
                     ELSE "empty"
    /\ task = "start"
    /\ opt_skip \in BOOLEAN

RIdle ==
    /\ items = <<>>
    /\ skip_enrichment = FALSE
    /\ call_cap = TAVILY_CALL_CAP
    /\ pc = "idle"
    /\ tavily_calls = 0
    /\ dispatched = 0
    /\ refused = 0
    /\ fallback_items = <<>>
    /\ valid_pairs = <<>>
    /\ enriched = <<>>
    /\ enriched_keys = {}
    /\ resolve_candidates = <<>>
    /\ ci = 1
    /\ canon = 0
    /\ resolved_targets = <<>>
    /\ urls_to_extract = <<>>
    /\ pages2 = <<>>
    /\ result = NoResult

\* _execute_run (main.py 107-139): the run is marked running and
\* graph.ainvoke starts the entry point
RunStart ==
    /\ run_status = "queued"
    /\ UNCHANGED <<rvars, mvars, pvars>>
    /\ task = "start"
    /\ task' = "invoke"
    /\ run_status' = "running"
    /\ active' = {"ParseRequest"}
    /\ npc' = [npc EXCEPT !["ParseRequest"] = "pending"]
    /\ UNCHANGED <<nout, agent_statuses, warnings, g_items, runs, enr_input,
                   raised_by, raise_cause, has_final, g_input, constraints,
                   opt_skip>>

\* _execute_run raises before graph.ainvoke: a dependency is not configured
\* (main.py 98-105, before the run is marked running), or an event or
\* progress write raises after update_run (main.py 107-121)
RunStartFails ==
    /\ run_status = "queued"
    /\ UNCHANGED <<rvars, mvars, pvars>>
    /\ task = "start"
    /\ task' = "handler"
    /\ \E cause \in {"deps", "sink"} :
        /\ raise_cause' = cause
        /\ run_status' = IF cause = "deps" THEN "queued" ELSE "running"
    /\ UNCHANGED <<active, npc, nout, agent_statuses, warnings, g_items, runs,
                   enr_input, raised_by, has_final, g_input, constraints,
                   opt_skip>>

\* _inner of _wrap_node and _wrap_agent up to the call of the node function
\* (graph.py 76-95, 189-208)
NodeStart(n) ==
    /\ run_status = "running"
    /\ UNCHANGED <<rvars, mvars, pvars>>
    /\ n \in active
    /\ npc[n] = "pending"
    /\ runs[n] < MaxNodeRuns
    /\ npc' = [npc EXCEPT ![n] = "running"]
    /\ runs' = [runs EXCEPT ![n] = @ + 1]
    /\ enr_input' = IF n = "EnrichmentAgent"
                    THEN [started |-> TRUE, statuses |-> agent_statuses,
                          items |-> g_items]
                    ELSE enr_input
    /\ UNCHANGED <<run_status, task, active, nout, agent_statuses, warnings,
                   g_items,
                   raised_by, raise_cause, has_final, g_input, constraints,
                   opt_skip>>

\* the node function returned and the wrapper returned its output
\* (graph.py 95-140, 208-232)
NodeEnd(n) ==
    /\ run_status = "running"
    /\ UNCHANGED <<rvars, mvars, pvars>>
    /\ npc[n] = "running"
    /\ \E o \in Outcomes(n) :
        /\ ~o.raises
        /\ nout' = [nout EXCEPT ![n] = o]
    /\ npc' = [npc EXCEPT ![n] = "ended"]
    /\ UNCHANGED <<run_status, task, active, agent_statuses, warnings, g_items,
                   runs,
                   enr_input, raised_by, raise_cause, has_final, g_input,
                   constraints, opt_skip>>

\* an exception leaves the wrapper (graph.py 142-170, 234-261: error event,
\* then raise): the tasks of the superstep still running are cancelled, no
\* write of the superstep is applied, graph.ainvoke raises and _execute_run
\* marks the run error (main.py 161-173)
Abort(n, cause) ==
    /\ npc' = [m \in Nodes |->
                 IF m = n THEN "raised"
                 ELSE IF npc[m] \in {"pending", "running"} THEN "cancelled"
                 ELSE npc[m]]
    /\ active' = {}
    /\ task' = "handler"
    /\ raised_by' = n
    /\ raise_cause' = cause
    /\ UNCHANGED <<rvars, mvars, pvars>>
    /\ UNCHANGED <<run_status, nout, agent_statuses, warnings, g_items, runs,
                   enr_input, has_final, g_input, constraints,
                   opt_skip>>

\* the node function raised
NodeRaise(n) ==
    /\ run_status = "running"
    /\ npc[n] = "running"
    /\ \E o \in Outcomes(n) : o.raises
    /\ Abort(n, "fn")

\* deps.mongo.append_event or add_artifact raised inside the wrapper
\* (graph.py 83, 106, 121, 129 and 196, 219; mongo.py 75-91)
SinkRaise(n) ==
    /\ run_status = "running"
    /\ npc[n] = "running"
    /\ Abort(n, "sink")

\* a reducer under which the last branch of a superstep replaces the others
operator_add_lastwins(left, right) ==
    IF right = <<>> THEN left ELSE left \o <<right[Len(right)]>>

\* the reducer of warnings (state.py 40): operator.add of the list held and
\* the lists written in the superstep
operator_add(left, right) == left \o right

WarnWriters(S) ==
    LET W(n) == n \in S /\ nout[n].warn
    IN  SelectSeq(NodeOrder, W)

\* the end of a superstep: every task ended, the writes are applied through
\* the reducers of SpotOnState (state.py 36-40) and the successors are
\* scheduled; with no successor graph.ainvoke returns and _execute_run marks
\* the run done (main.py 139-160)
Commit ==
    /\ run_status = "running"
    /\ UNCHANGED <<rvars, mvars, pvars>>
    /\ active # {}
    /\ \A n \in active : npc[n] = "ended"
    /\ agent_statuses' =
         [n \in Nodes |-> IF n \in active /\ nout[n].status # ""
                             /\ n \in WrappedAgents
                          THEN nout[n].status ELSE agent_statuses[n]]
    /\ warnings' = operator_add(warnings, WarnWriters(active))
    /\ g_items' = [p \in Producers |->
                     IF p \in active /\ nout[p].writes_items
                     THEN nout[p].nitems ELSE g_items[p]]
    /\ constraints' = IF "ParseRequest" \in active
                      THEN ConstraintsOf(nout["ParseRequest"].cause)
                      ELSE constraints
    /\ has_final' = (has_final \/ "AggregateResults" \in active)
    /\ active' = Successors(active)
    /\ npc' = [n \in Nodes |->
                 IF n \in Successors(active) THEN "pending" ELSE npc[n]]
    /\ task' = IF Successors(active) = {} THEN "returned" ELSE task
    /\ UNCHANGED <<run_status, nout, runs, enr_input, raised_by, raise_cause,
                   g_input, opt_skip>>

\* graph.ainvoke returned: the final output is stored and the run is marked
\* done (main.py 139-159)
RunDone ==
    /\ task = "returned"
    /\ UNCHANGED <<rvars, mvars, pvars>>
    /\ run_status' = "done"
    /\ task' = "logging"
    /\ UNCHANGED <<active, npc, nout, agent_statuses, warnings, g_items, runs,
                   enr_input, raised_by, raise_cause, has_final, g_input,
                   constraints, opt_skip>>

\* mongo.add_artifact raises before the run is marked done (main.py 145-148)
ArtifactRaises ==
    /\ task = "returned"
    /\ UNCHANGED <<rvars, mvars, pvars>>
    /\ has_final
    /\ task' = "handler"
    /\ raise_cause' = "sink"
    /\ UNCHANGED <<run_status, active, npc, nout, agent_statuses, warnings,
                   g_items, runs, enr_input, raised_by, has_final, g_input,
                   constraints, opt_skip>>

\* the "Run completed" event after the run was marked done (main.py 160):
\* appended, or append_event raises inside the try
RunLogged ==
    /\ task = "logging"
    /\ UNCHANGED <<rvars, mvars, pvars>>
    /\ \E raises \in BOOLEAN :
        /\ task' = IF raises THEN "handler" ELSE "finished"
        /\ raise_cause' = IF raises THEN "sink" ELSE raise_cause
    /\ UNCHANGED <<run_status, active, npc, nout, agent_statuses, warnings,
                   g_items, runs, enr_input, raised_by, has_final, g_input,
                   constraints, opt_skip>>

\* an except clause that ends the task without writing the run document
RunFailed_silent ==
    /\ task = "handler"
    /\ UNCHANGED <<rvars, mvars, pvars>>
    /\ task' = "finished"
    /\ UNCHANGED <<run_status, active, npc, nout, agent_statuses, warnings,
                   g_items, runs, enr_input, raised_by, raise_cause, has_final,
                   g_input, constraints,
                   opt_skip>>

\* except Exception of _execute_run (main.py 161-173): the run is marked
\* error; the task ends whether or not the "Run failed" event is appended
RunFailed ==
    /\ task = "handler"
    /\ UNCHANGED <<rvars, mvars, pvars>>
    /\ run_status' = "error"
    /\ task' = "finished"
    /\ UNCHANGED <<active, npc, nout, agent_statuses, warnings, g_items, runs,
                   enr_input, raised_by, raise_cause, has_final, g_input,
                   constraints, opt_skip>>

\* a cancellation that stops _execute_run alone and leaves the tasks of the
\* nodes running
Cancel_orphans ==
    /\ task \in {"start", "invoke", "returned", "logging", "handler"}
    /\ UNCHANGED <<rvars, mvars, pvars>>
    /\ task' = "cancelled"
    /\ UNCHANGED <<run_status, active, npc, nout, agent_statuses, warnings,
                   g_items, runs, enr_input, raised_by, raise_cause, has_final,
                   g_input, constraints, opt_skip>>

\* t.cancel() on the task of the run at shutdown (main.py 81-85; the task is
\* the one create_run made, main.py 218): CancelledError is raised at the
\* await the task is suspended in and travels down graph.ainvoke to the
\* tasks of the nodes and into their asyncio.gather and wait_for calls, which
\* cancel their children; it is no Exception, so neither the wrappers'
\* except nor the one of _execute_run (main.py 161) handles it and no status
\* is written
Cancel ==
    /\ task \in {"start", "invoke", "returned", "logging", "handler"}
    /\ UNCHANGED <<rvars, mvars, pvars>>
    /\ task' = "cancelled"
    /\ active' = {}
    /\ npc' = [n \in Nodes |->
                 IF npc[n] \in {"pending", "running"} THEN "cancelled"
                 ELSE npc[n]]
    /\ UNCHANGED <<run_status, nout, agent_statuses, warnings, g_items, runs,
                   enr_input, raised_by, raise_cause, has_final, g_input,
                   constraints, opt_skip>>

GNext ==
    \/ RunStart
    \/ RunStartFails
    \/ RunDone
    \/ ArtifactRaises
    \/ RunLogged
    \/ RunFailed
    \/ \E n \in Nodes : NodeStart(n)
    \/ \E n \in Nodes : NodeEnd(n)
    \/ \E n \in Nodes : NodeRaise(n)
    \/ \E n \in Nodes : SinkRaise(n)
    \/ Commit

QIdle ==
    /\ q_pc = "idle"
    /\ q_state = <<>>
    /\ q_enriched = <<>>
    /\ q_refs = 0
    /\ q_out = <<>>
    /\ q_probe = <<>>

DIdle ==
    /\ d_pc = "idle"
    /\ d_items = <<>>
    /\ d_unique = <<>>
    /\ d_by_url = <<>>
    /\ d_by_name = <<>>
    /\ d_top_n = 0

UIdle ==
    /\ u_pc = "idle"
    /\ u_url = <<>>
    /\ u_once = <<>>
    /\ u_twice = <<>>

CRuns == 1..2

CIdle ==
    /\ c_pc = [r \in CRuns |-> "idle"]
    /\ c_tavily_calls = [r \in CRuns |-> 0]
    /\ c_enriched = [r \in CRuns |-> {}]
    /\ c_dispatched = [r \in CRuns |-> 0]
    /\ c_refused = [r \in CRuns |-> 0]
    /\ c_written = [r \in CRuns |-> {}]
    /\ c_result = [r \in CRuns |-> {}]

TIdle ==
    /\ t_pc = "idle"
    /\ t_coros = <<>>
    /\ t_how = ""
    /\ t_results = <<>>

WIdle ==
    /\ w_name = "none"
    /\ w_run_id = FALSE
    /\ w_pc = "idle"
    /\ w_fn = "none"
    /\ w_artifact = FALSE
    /\ w_events = <<>>

SIdle ==
    /\ s_status = "idle"
    /\ s_wpc = "idle"
    /\ s_stamped = 0
    /\ s_visible = {}
    /\ s_term = 0
    /\ s_mode = "idle"
    /\ s_cursor = 0
    /\ s_changes = <<>>
    /\ s_seen = {}
    /\ s_delivered = <<>>
    /\ s_saw_terminal = FALSE
    /\ s_idle = 0
    /\ s_fellback = FALSE
    /\ s_gone = FALSE

XIdle ==
    /\ x_pc = "idle"
    /\ x_dest = FALSE
    /\ x_in = <<>>
    /\ x_res = <<>>
    /\ x_out = <<>>

EIdle == WIdle /\ SIdle /\ XIdle

MIdle ==
    /\ m_pc = "idle"
    /\ m_item = <<>>
    /\ m_patch = <<>>
    /\ m_split = <<>>
    /\ m_final = <<>>

Init == RInit /\ GIdle /\ MIdle /\ QIdle /\ DIdle /\ UIdle /\ CIdle /\ TIdle /\ EIdle

Next == RNext

\* the runs without the option skip_enrichment
GraphInit == GInit /\ ~opt_skip /\ RIdle /\ MIdle /\ QIdle /\ DIdle /\ UIdle
    /\ CIdle /\ TIdle /\ EIdle

\* the runs with constraints given, with and without the option
SkipInit ==
    GInit /\ g_input = "constraints" /\ RIdle /\ MIdle /\ QIdle /\ DIdle /\ UIdle
    /\ CIdle /\ TIdle /\ EIdle

GraphNext == GNext

\* one run of the graph; the event loop runs every task that can run, and a
\* node function returns or raises (every await in it has a deadline)
GraphSpec == GraphInit /\ [][GraphNext]_vars /\ WF_vars(GraphNext)

SkipSpec == SkipInit /\ [][GraphNext]_vars /\ WF_vars(GraphNext)

\* the runs of a process that may shut down while they execute
CancelNext == GNext \/ Cancel

CancelSpec == GraphInit /\ [][CancelNext]_vars


Spec == Init /\ [][Next]_vars

TypeOK ==
    /\ tavily_calls \in 0..TAVILY_CALL_CAP
    /\ pc \in AwaitStates \cup {"start", "p2_pick", "p2_loop", "p2_after",
                                "returned"}

\* the passes whose budget is below the shipped cap, under weak fairness: a
\* dispatched call completes, fails or the deadline hits, and the code
\* between two awaits runs to the next await
BudgetInit == Init /\ call_cap < TAVILY_CALL_CAP

BudgetSpec == BudgetInit /\ [][Next]_vars /\ WF_vars(Next)

\* ------------------------------------------------------------------------
\* Claims about one Resolver pass
\* ------------------------------------------------------------------------
CallAwaitStates == {"p1_extract", "p2_search1", "p2_search2", "p2_map",
                    "p2_extract"}

\* the patch handed back holds every non-empty value the pass accumulated
ReturnsValues ==
    \A i \in Ids : \A f \in Fields :
        ~IsEmptyVal(enriched[i][f]) => result.data[i][f] = enriched[i][f]

ReturnsPatch ==
    /\ enriched_keys \subseteq result.data_keys
    /\ ReturnsValues

\* C1: the Search-Service calls dispatched in one pass (Phase 1 extract,
\* Phase 2 searches, maps and subpage extract together) never exceed the
\* call cap of the pass, whatever the items and the call outcomes.
C1_CallsWithinCap == dispatched <= call_cap /\ call_cap <= TAVILY_CALL_CAP

\* a pass that used its whole budget of five calls
C1_Witness ==
    /\ pc = "returned"
    /\ call_cap = 5
    /\ dispatched = call_cap

\* C2: every call reserves budget before it is dispatched: a dispatch and
\* the increment of the counter go together, one for one, so every call in
\* flight or finished is counted exactly once, and a refused reservation
\* dispatches nothing.
C2_ReserveBeforeDispatch ==
    /\ [](dispatched = tavily_calls)
    /\ [][/\ dispatched' # dispatched =>
                /\ dispatched' = dispatched + 1
                /\ tavily_calls < call_cap
                /\ tavily_calls' = tavily_calls + 1
                /\ pc' \in CallAwaitStates
          /\ refused' # refused =>
                /\ tavily_calls >= call_cap
                /\ dispatched' = dispatched
                /\ pc' \notin CallAwaitStates]_vars

\* the map call of the second item is in flight and all calls are counted
C2_Witness ==
    /\ pc = "p2_map"
    /\ ci = 2
    /\ dispatched >= 4
    /\ dispatched = tavily_calls

\* C3 (as claimed): once the patch of an item holds a non-empty value for a
\* field, no later write of the pass replaces it.
C3_FirstWriteWins ==
    [][call_cap = TAVILY_CALL_CAP =>
        \A i \in Ids : \A f \in Fields :
            ~IsEmptyVal(enriched[i][f]) => enriched'[i][f] = enriched[i][f]]_vars

\* C5: when the budget runs out in the middle of a pass, no further call is
\* dispatched, the pass is never stuck waiting, it terminates, and what it
\* returns holds every patch accumulated so far.
C5_BudgetExhausted ==
    /\ [][tavily_calls >= call_cap => dispatched' = dispatched]_vars
    /\ [][pc = "p2_loop" /\ call_cap - tavily_calls < ReserveCalls
            => pc' = "p2_after"]_vars
    /\ [](pc # "returned" => ENABLED Next)
    /\ [](pc = "returned" /\ result.how \in {"normal", "reserve"}
            => result.has_data /\ ReturnsPatch)
    /\ <>(pc = "returned")

\* the budget of five calls ran out after the first of two candidates: the
\* pass returned the Phase 1 patch of one item and a resolved url
C5_Witness ==
    /\ pc = "returned"
    /\ result.how = "normal"
    /\ call_cap = 5
    /\ tavily_calls = call_cap
    /\ Len(items) = 2
    /\ \E i \in Ids : \E f \in Fields : result.data[i][f] = "p1"
    /\ \E i \in Ids : \E f \in Fields : result.data[i][f] \in {"map", "prov"}

\* C10 (as claimed): a failed Search-Service or extraction call is caught
\* where it is made, the pass goes on and returns the patches accumulated
\* before the failure.
C10_CallFailureContained ==
    (call_cap = TAVILY_CALL_CAP /\ pc = "returned"
        /\ result.how \notin {"skipped", "timeout"})
        => ReturnsValues

\* ------------------------------------------------------------------------
\* Merging the patch of an item into the producer's item
\* ------------------------------------------------------------------------
MergeFields == {"operating_hours", "reservation_url"}

\* a key the dict does not hold
Absent == "Absent"

\* None and "" are among the values _merge_enriched takes for empty
EmptyVals == {None, ""}

ItemVals == {Absent, "producer"} \cup EmptyVals

PatchVals == {Absent, "patch"} \cup EmptyVals

\* the values the code takes for empty: val in (None, "", [], {})
\* (quality_split.py 41, 54, 63)
EmptyTuple == EmptyVals \cup {"[]", "{}"}

\* quality_split._merge_enriched for one item (quality_split.py 30-44)
_merge_enriched(it, extra) ==
    IF \A k \in DOMAIN extra : extra[k] = Absent THEN it
    ELSE [k \in DOMAIN it |->
            IF extra[k] # Absent /\ (it[k] = Absent \/ it[k] \in EmptyTuple)
            THEN extra[k] ELSE it[k]]

\* aggregate_results for one item: item.update(enriched[id])
\* (aggregate_results.py 29-32, 38-40, 46-48, 54-56, 62-64)
aggregate_item(it, extra) ==
    [k \in MergeFields |-> IF extra[k] # Absent THEN extra[k] ELSE it[k]]

MInit ==
    /\ m_pc = "input"
    /\ m_item \in [MergeFields -> ItemVals]
    /\ m_patch \in [MergeFields -> PatchVals]
    /\ m_split = <<>>
    /\ m_final = <<>>

MergeSplit ==
    /\ m_pc # "idle"
    /\ m_split = <<>>
    /\ m_split' = _merge_enriched(m_item, m_patch)
    /\ m_pc' = "merged"
    /\ UNCHANGED <<m_item, m_patch, m_final, rvars, gvars, pvars>>

MergeAggregate ==
    /\ m_pc # "idle"
    /\ m_final = <<>>
    /\ m_final' = aggregate_item(m_item, m_patch)
    /\ m_pc' = "merged"
    /\ UNCHANGED <<m_item, m_patch, m_split, rvars, gvars, pvars>>

MergeInit == MInit /\ RIdle /\ GIdle /\ QIdle /\ DIdle /\ UIdle
    /\ CIdle /\ TIdle /\ EIdle

MergeNext == MergeSplit \/ MergeAggregate

MergeSpec == MergeInit /\ [][MergeNext]_vars

\* the merged item keeps every non-empty value of the producer's item and
\* differs from it only where it takes the value of the patch
KeepsProducerValues(out) ==
    \A k \in MergeFields :
        /\ (m_item[k] # Absent /\ m_item[k] \notin EmptyVals)
              => out[k] = m_item[k]
        /\ out[k] # m_item[k] => out[k] = m_patch[k]

\* C4: on both merge paths a field that is non-empty in the producer's item
\* keeps the producer's value, and a patch value is used only for a field
\* that is absent or empty in the item.
C4_MergeKeepsProducerValue ==
    /\ m_split # <<>> => KeepsProducerValues(m_split)
    /\ m_final # <<>> => KeepsProducerValues(m_final)

\* ------------------------------------------------------------------------
\* Claims about one run of the graph
\* ------------------------------------------------------------------------
\* the loop cap of the Convergence Controller the specification describes
LoopCap == 2

StateItems(p) == IF nout[p].writes_items THEN nout[p].nitems ELSE 0

\* C7: barrier join. When the EnrichmentAgent node is started, each of the four
\* producers has been started once and has ended, whatever its status, and
\* the state the node is started with holds the status and the items of all
\* four; the node is started at most once, and once in a run that ends done.
C7_BarrierJoin ==
    /\ enr_input.started =>
         \A p \in Producers :
            /\ runs[p] = 1
            /\ npc[p] = "ended"
            /\ enr_input.statuses[p] = nout[p].status
            /\ enr_input.statuses[p] # ""
            /\ enr_input.items[p] = StateItems(p)
    /\ runs["EnrichmentAgent"] <= 1
    /\ run_status = "done" => runs["EnrichmentAgent"] = 1
    /\ runs["EnrichmentAgent"] = 1 <=> enr_input.started

C7_Witness ==
    /\ npc["EnrichmentAgent"] = "running"
    /\ enr_input.statuses["RestaurantAgent"] = "failed"
    /\ enr_input.statuses["AttractionsAgent"] = "partial"
    /\ enr_input.statuses["HotelAgent"] = "completed"
    /\ enr_input.statuses["TransportAgent"] = "partial"
    /\ enr_input.items["HotelAgent"] = MaxProduced

\* the ways a producer's execute fails
FailureCauses(p) ==
    IF p = "TransportAgent"
    THEN {"exception", "missing_destination", "both_failed"}
    ELSE {"exception", "missing_destination", "search_timeout", "no_results",
          "llm_no_results"}

FailedProducers ==
    {p \in Producers : npc[p] = "ended" /\ nout[p].status = "failed"}

InWarnings(n) == \E i \in 1..Len(warnings) : warnings[i] = n

C9_NodeErrorContained ==
    /\ raised_by = "none"
    /\ run_status # "error"
    /\ \A n \in Nodes : npc[n] \notin {"raised", "cancelled"}

TerminalStatus == {"done", "error"}

C12_InvalidConstraintsFatal ==
    \A p \in Producers : runs[p] > 0 => constraints \in {"given", "parsed"}

\* C13 (as claimed): in a run whose option skip_enrichment is true the
\* enrichment node takes the skip branch: it returns status skipped with an
\* empty patch and makes no call.
C13_SkipBypassesEnrichment ==
    (opt_skip /\ npc["EnrichmentAgent"] = "ended")
        => (nout["EnrichmentAgent"].cause = "skip_flag"
            /\ nout["EnrichmentAgent"].status = "skipped")

\* C14 (as claimed): when the 45-second deadline of the enrichment pass
\* expires, the node returns the patches the pass had recorded before the
\* deadline, with status failed or partial.
C14_TimeoutKeepsPartial ==
    (pc = "returned" /\ result.how = "timeout")
        => (ReturnsPatch /\ result.status \in {"failed", "partial"})

Phase1States == {"start", "p1_extract", "p1_gather"}

Phase2Calls == {"p2_search1", "p2_search2", "p2_map", "p2_extract"}

\* C15: within one pass no Phase 2 call (canonical search, reservation
\* search, map, subpage extract) is dispatched before Phase 1 is over: a call
\* dispatched during Phase 1 is the Phase 1 extract, Phase 2 picks its
\* candidates only after the extract call returned or failed and the parses of
\* all valid pairs were gathered and their patches recorded, and Phase 2
\* calls are dispatched only after that pick.
C15_Phase1BeforePhase2 ==
    /\ [][ /\ (pc \in Phase1States /\ dispatched' > dispatched)
                => pc' = "p1_extract"
           /\ pc \in Phase1States
                => pc' \in Phase1States \cup {"p2_pick", "returned"}
           /\ (pc \in Phase1States /\ pc' = "p2_pick")
                => (pc = "p1_gather" \/ valid_pairs' = <<>>)
           /\ (pc = "p1_gather" /\ pc' = "p2_pick")
                => /\ enriched_keys' \subseteq
                          enriched_keys \cup Range(valid_pairs)
                   /\ \A i \in Ids : i \notin enriched_keys'
                                        => enriched'[i] = EmptyDict
           /\ pc' \in Phase2Calls
                => pc \in {"p2_loop", "p2_after"} \cup Phase2Calls
           /\ pc \notin Phase1States
                => (valid_pairs' = valid_pairs \/ pc' = "returned") ]_vars
    /\ [](pc \in Phase2Calls => dispatched >= 1)

C15_Witness ==
    /\ pc = "p2_map"
    /\ fallback_items # <<>>
    /\ Len(valid_pairs) = 2
    /\ enriched_keys # {}
    /\ dispatched >= 3

\* C16 (as claimed): the event sink cannot change the outcome of a run: a
\* run in which the dependencies are present and no node function raises
\* ends as it does with a working sink, with status done and its final
\* output, whether the sink's writes succeed or fail.
C16_SinkCannotChangeOutcome ==
    (task = "finished" /\ raise_cause \notin {"fn", "deps"})
        => (run_status = "done" /\ has_final)

\* ------------------------------------------------------------------------
\* quality_split (quality_split.py)
\* ------------------------------------------------------------------------
MaxSplitItems == 2

\* categories of quality_split, in the order of its loop (line 71)
Categories == <<"restaurants", "travel_spots", "hotels", "car_rentals",
                "flights">>

CatSet == Range(Categories)

\* lines 7-13; .get(category, []) for any other category
CRITICAL_FIELDS(category) ==
    CASE category \in {"restaurants", "travel_spots", "hotels"} ->
            {"name", "url"}
      [] category = "car_rentals" -> {"provider", "url"}
      [] category = "flights" -> {"route", "url"}
      [] OTHER -> {}

\* lines 16-22; .get(category, []) for any other category
IMPORTANT_FIELDS(category) ==
    CASE category = "restaurants" -> {"price_range", "cuisine"}
      [] category = "travel_spots" -> {"kind"}
      [] category = "hotels" -> {"price_per_night"}
      [] category = "car_rentals" -> {"price_per_day"}
      [] category = "flights" -> {"price_range"}
      [] OTHER -> {}

\* lines 24-27 with the default of .get(category, "name")
NAME_FIELD_MAP(category) ==
    CASE category = "car_rentals" -> "provider"
      [] category = "flights" -> "route"
      [] OTHER -> "name"

\* lines 83-89
section_map(category) ==
    CASE category = "restaurants" -> "restaurant"
      [] category = "travel_spots" -> "attraction"
      [] category = "hotels" -> "hotel"
      [] category = "car_rentals" -> "car"
      [] category = "flights" -> "flight"
      [] OTHER -> category

\* the keys a reference record gets at demotion (lines 93-95)
RefKeys == {"section", "title", "content"}

\* the keys of the dicts of the model: the fields of the producers' schemas
\* that quality_split reads (schemas/spot_on.py 13-145) and the keys of a
\* reference
QFields == {"id", "name", "provider", "route", "url", "price_range",
            "cuisine", "kind", "price_per_night", "price_per_day", "snippet",
            "why_recommended"} \cup RefKeys

\* dict.get(key): None for a key the dict does not hold
Get(d, key) == IF d[key] = Absent THEN None ELSE d[key]

\* a or b
PyOr(a, b) == IF a \in EmptyTuple THEN b ELSE a

\* _has_required (quality_split.py 47-66)
_has_required_critical_only(item, category) ==
    LET name_field == NAME_FIELD_MAP(category)
        actual_field(field) == IF field = "name" THEN name_field ELSE field
    IN  ~ \E field \in CRITICAL_FIELDS(category) :
              Get(item, actual_field(field)) \in EmptyTuple

_has_required(item, category) ==
    LET name_field == NAME_FIELD_MAP(category)
        actual_field(field) == IF field = "name" THEN name_field ELSE field
    IN  IF \E field \in CRITICAL_FIELDS(category) :
              Get(item, actual_field(field)) \in EmptyTuple
        THEN FALSE
        ELSE IF IMPORTANT_FIELDS(category) = {} THEN TRUE
        ELSE \E field \in IMPORTANT_FIELDS(category) :
                Get(item, field) \notin EmptyTuple

\* a reference made of the three keys and the url alone
Demote_bare(item, cat) ==
    [f \in QFields |->
        CASE f = "section" -> section_map(cat)
          [] f = "title" -> PyOr(Get(item, NAME_FIELD_MAP(cat)),
                                 PyOr(Get(item, "name"), "Source"))
          [] f = "content" -> PyOr(Get(item, "snippet"),
                                   PyOr(Get(item, "why_recommended"), ""))
          [] f = "url" -> item[f]
          [] OTHER -> Absent]

\* lines 90-96: {**item, "section": ..., "title": ..., "content": ...}
Demote(item, cat) ==
    [f \in QFields |->
        CASE f = "section" -> section_map(cat)
          [] f = "title" -> PyOr(Get(item, NAME_FIELD_MAP(cat)),
                                 PyOr(Get(item, "name"), "Source"))
          [] f = "content" -> PyOr(Get(item, "snippet"),
                                   PyOr(Get(item, "why_recommended"), ""))
          [] OTHER -> item[f]]

\* the ids the producers give their items
ItemIds == <<"i1", "i2", "i3">>

EmptyPatch == [f \in QFields |-> Absent]

\* enriched.get(it.get("id", ""), {})
PatchOf(it, enriched_data) ==
    IF it["id"] \in DOMAIN enriched_data THEN enriched_data[it["id"]]
    ELSE EmptyPatch

\* the first important field of a category, the one the model's patches fill
PatchField(c) ==
    CASE c = "restaurants" -> "price_range"
      [] c = "travel_spots" -> "kind"
      [] c = "hotels" -> "price_per_night"
      [] c = "car_rentals" -> "price_per_day"
      [] OTHER -> "price_range"

\* an item of category c as its producer writes it (model_dump of the
\* category's schema, schemas/spot_on.py 13-145): no key of RefKeys
MkItem(c, k, nm, url, imp, cui) ==
    [f \in QFields |->
        CASE f = "id" -> ItemIds[k]
          [] f = NAME_FIELD_MAP(c) -> nm
          [] f = "url" -> url
          [] f = PatchField(c) -> imp
          [] f = "cuisine" /\ c = "restaurants" -> cui
          [] f = "snippet" -> "s"
          [] OTHER -> Absent]

\* a record state["references"] holds before the split
ExistingRef ==
    [f \in QFields |->
        CASE f = "section" -> "restaurant"
          [] f = "title" -> "Existing"
          [] f = "url" -> "v"
          [] OTHER -> Absent]

\* a second record, so that the order of the records shows
ExistingRef2 ==
    [ExistingRef EXCEPT !["section"] = "hotel", !["title"] = "Existing2"]

\* state.get("references", []) (line 99)
existing_refs(n) == [k \in 1..n |-> IF k = 1 THEN ExistingRef ELSE ExistingRef2]

\* a split that returns the records it demoted alone
all_refs_demoted_only(existing, demoted_refs) == demoted_refs

\* line 100: all_refs = existing_refs + demoted_refs
all_refs(existing, demoted_refs) == existing \o demoted_refs

QInit ==
    /\ q_pc = "input"
    /\ \E c \in CatSet : \E n \in 0..MaxSplitItems :
       \E nm \in [1..n -> {"", "v"}] :
       \E url \in [1..n -> {Absent, None, "v"}] :
       \E imp \in [1..n -> {None, "[]", "v"}] :
       \E cui \in [1..n -> {"{}", "v"}] :
       \E pt \in [1..n -> {Absent, "p"}] :
          /\ q_state = [cc \in CatSet |->
                          IF cc = c
                          THEN [k \in 1..n |->
                                  MkItem(c, k, nm[k], url[k], imp[k], cui[k])]
                          ELSE <<>>]
          /\ q_enriched = [i \in {ItemIds[k] : k \in 1..n} |->
                            [f \in QFields |->
                                IF f = PatchField(c)
                                THEN pt[CHOOSE k \in 1..n : ItemIds[k] = i]
                                ELSE Absent]]
    /\ q_refs \in 0..2
    /\ q_out = <<>>
    /\ q_probe = <<>>

\* line 77: the merged items of a category
Merged(cat) ==
    [k \in 1..Len(q_state[cat]) |->
        _merge_enriched(q_state[cat][k], PatchOf(q_state[cat][k], q_enriched))]

\* lines 78-97 for one category
MainOf(cat) ==
    LET keep(it) == _has_required(it, cat)
    IN  SelectSeq(Merged(cat), keep)

DemotedOf(cat) ==
    LET drop(it) == ~_has_required(it, cat)
        d == SelectSeq(Merged(cat), drop)
    IN  [k \in 1..Len(d) |-> Demote(d[k], cat)]

\* quality_split (lines 69-115)
QualitySplit ==
    /\ q_pc = "input"
    /\ q_pc' = "done"
    /\ q_out' =
         [main_results |-> [c \in CatSet |-> MainOf(c)],
          references |->
              all_refs(existing_refs(q_refs),
                       DemotedOf(Categories[1]) \o DemotedOf(Categories[2])
                       \o DemotedOf(Categories[3]) \o DemotedOf(Categories[4])
                       \o DemotedOf(Categories[5]))]
    /\ UNCHANGED <<q_state, q_enriched, q_refs, q_probe>>
    /\ UNCHANGED <<rvars, gvars, mvars, dvars, uvars, cvars, tvars,
                 evars>>

\* a call of _has_required on the first item of the run, with its own
\* category or a category the tables do not hold
HasRequired ==
    /\ q_pc \in {"input", "done"}
    /\ q_probe = <<>>
    /\ \E c \in CatSet : \E category \in {c, "other"} :
        /\ Len(q_state[c]) > 0
        /\ q_probe' = [item |-> q_state[c][1], category |-> category,
                       promoted |-> _has_required(q_state[c][1], category)]
    /\ UNCHANGED <<q_pc, q_state, q_enriched, q_refs, q_out>>
    /\ UNCHANGED <<rvars, gvars, mvars, dvars, uvars, cvars, tvars,
                 evars>>

SplitInit == QInit /\ RIdle /\ GIdle /\ MIdle /\ DIdle /\ UIdle
    /\ CIdle /\ TIdle /\ EIdle

SplitNext == QualitySplit \/ HasRequired

SplitSpec == SplitInit /\ [][SplitNext]_vars

NonEmpty(it, f) == it[f] # Absent /\ it[f] \notin EmptyTuple

\* both tiers, stated on the fields of the item
Qualifies(it, c) ==
    /\ \A f \in CRITICAL_FIELDS(c) : NonEmpty(it, f)
    /\ \/ IMPORTANT_FIELDS(c) = {}
       \/ \E f \in IMPORTANT_FIELDS(c) : NonEmpty(it, f)

\* C17: an item is promoted to main_results if and only if every critical
\* field of its category is non-empty and the category's important set is
\* empty or at least one important field is non-empty; an item missing a
\* critical field is demoted whatever its important fields.
C17_PromotedIffRequired ==
    /\ q_pc = "done" =>
         \A c \in CatSet :
            LET q(it) == Qualifies(it, c)
            IN  /\ q_out.main_results[c] = SelectSeq(Merged(c), q)
                /\ \A k \in 1..Len(q_out.main_results[c]) :
                      \A f \in CRITICAL_FIELDS(c) :
                         NonEmpty(q_out.main_results[c][k], f)
    /\ q_probe # <<>> =>
         q_probe.promoted = Qualifies(q_probe.item, q_probe.category)

C17_Witness ==
    /\ q_pc = "done"
    /\ Len(q_state["restaurants"]) = 2
    /\ \E k \in 1..2 :
          /\ ~NonEmpty(q_state["restaurants"][k], "url")
          /\ NonEmpty(q_state["restaurants"][k], "price_range")
          /\ NonEmpty(q_state["restaurants"][k], "cuisine")
    /\ Len(q_out.main_results["restaurants"]) = 1
    /\ q_probe # <<>>
    /\ q_probe.category = "other"
    /\ q_probe.promoted

Count(seq, v) == Cardinality({k \in 1..Len(seq) : seq[k] = v})

\* the item a reference was made of: the record without the keys of demotion
Payload(ref) == [f \in QFields |-> IF f \in RefKeys THEN Absent ELSE ref[f]]

\* the references quality_split added for category c
AddedRefs(c) ==
    LET added == SubSeq(q_out.references, q_refs + 1, Len(q_out.references))
        of_c(r) == r["section"] = section_map(c)
    IN  SelectSeq(added, of_c)

\* C18: the split partitions the items: every merged item of a category is
\* in exactly one of main_results[category] and the demoted references, as
\* often as it is in the input; a demoted reference carries every field and
\* value of the merged item besides its section, title and content, and the
\* references the state held before stay first.
C18_SplitPartitions ==
    q_pc = "done" =>
      /\ \A c \in CatSet :
           /\ Len(q_out.main_results[c]) + Len(AddedRefs(c)) = Len(q_state[c])
           /\ \A k \in 1..Len(q_state[c]) :
                LET it == Merged(c)[k]
                    payloads == [j \in 1..Len(AddedRefs(c)) |->
                                    Payload(AddedRefs(c)[j])]
                IN  /\ Count(Merged(c), it)
                         = Count(q_out.main_results[c], it)
                           + Count(payloads, it)
                    /\ Count(q_out.main_results[c], it) = 0
                         \/ Count(payloads, it) = 0
           /\ \A j \in 1..Len(AddedRefs(c)) :
                \E k \in 1..Len(q_state[c]) :
                   /\ \A f \in QFields :
                        Merged(c)[k][f] # Absent
                           => AddedRefs(c)[j][f] = Merged(c)[k][f]
                   /\ \A f \in RefKeys : AddedRefs(c)[j][f] # Absent
      /\ Len(q_out.references)
            = q_refs + Len(AddedRefs(Categories[1]))
              + Len(AddedRefs(Categories[2])) + Len(AddedRefs(Categories[3]))
              + Len(AddedRefs(Categories[4])) + Len(AddedRefs(Categories[5]))
      /\ \A k \in 1..q_refs : q_out.references[k] = existing_refs(q_refs)[k]

C18_Witness ==
    /\ q_pc = "done"
    /\ q_refs = 1
    /\ Len(q_state["hotels"]) = 2
    /\ Len(q_out.main_results["hotels"]) = 1
    /\ Len(q_out.references) = 2
    /\ q_out.references[2]["price_per_night"] = "p"
    /\ q_out.references[2]["section"] = "hotel"

\* ------------------------------------------------------------------------
\* canonicalize_url (utils/dedup.py 27-54)
\*
\* A url is the text  scheme ":" rest "?" query "#" fragment  with the
\* delimiter left out when the part is empty; rest is a sequence of
\* characters and query a sequence of key=value pieces joined by "&", both
\* as written in the url (percent-encoded).
\* ------------------------------------------------------------------------
MaxRest == 5
MaxQuery == 2

RestChars == {"/", "X"}

Schemes == {"", "https", "HTTPS", "mailto"}

\* pieces of a query string as written
RawKeys == {"a", "A", "+a", "b", "utm_x", "Ref", ""}
RawVals == {"", "%31"}

SeqsUpTo(S, n) == UNION { [1..m -> S] : m \in 0..n }

Urls ==
    [scheme : Schemes, rest : SeqsUpTo(RestChars, MaxRest),
     query : SeqsUpTo([k : RawKeys, v : RawVals], MaxQuery),
     fragment : {"", "f"}]

\* str.lower() on the texts of the model
Lower(t) ==
    CASE t = "X" -> "x"
      [] t = "A" -> "a"
      [] t = "B" -> "b"
      [] t = "Ref" -> "ref"
      [] t = "HTTPS" -> "https"
      [] OTHER -> t

LowerSeq(q) == [k \in 1..Len(q) |-> Lower(q[k])]

\* unquote of parse_qsl: "+" is a space, %31 is the character 1
Unquote(t) ==
    CASE t = "+a" -> " a"
      [] t = "%31" -> "1"
      [] OTHER -> t

\* quote_plus of urlencode
QuotePlus(t) == IF t = " a" THEN "+a" ELSE t

\* str.strip() on a key
StripKey(t) == IF t = " a" THEN "a" ELSE t

\* the order of Python on the lowered keys and on the values
TextRank(t) ==
    CASE t = "" -> 0
      [] t = "1" -> 1
      [] t = "a" -> 2
      [] t = "b" -> 3
      [] OTHER -> 4

\* urllib.parse.urlparse: the scheme is lowered; after "//" the netloc runs
\* to the next "/"
urlparse(u) ==
    LET has_netloc == Len(u.rest) >= 2 /\ u.rest[1] = "/" /\ u.rest[2] = "/"
        after == SubSeq(u.rest, 3, Len(u.rest))
        slashes == {k \in 1..Len(after) : after[k] = "/"}
        delim == IF slashes = {} THEN Len(after) + 1
                 ELSE CHOOSE k \in slashes : \A j \in slashes : k <= j
    IN  [scheme |-> Lower(u.scheme),
         netloc |-> IF has_netloc THEN SubSeq(after, 1, delim - 1) ELSE <<>>,
         path |-> IF has_netloc THEN SubSeq(after, delim, Len(after))
                  ELSE u.rest,
         query |-> u.query,
         fragment |-> u.fragment]

uses_netloc == {"", "http", "https"}

\* urllib.parse.urlunparse((scheme, netloc, path, "", query, ""))
urlunparse(scheme, netloc, path, query) ==
    LET url == IF \/ netloc # <<>>
                  \/ /\ scheme # ""
                     /\ scheme \in uses_netloc
                     /\ ~(Len(path) >= 2 /\ path[1] = "/" /\ path[2] = "/")
               THEN <<"/", "/">> \o netloc \o
                    (IF path # <<>> /\ path[1] # "/"
                     THEN <<"/">> \o path ELSE path)
               ELSE path
    IN  [scheme |-> scheme, rest |-> url, query |-> query, fragment |-> ""]

\* parse_qsl(query, keep_blank_values=True)
parse_qsl(query) ==
    [k \in 1..Len(query) |->
        [k |-> Unquote(query[k].k), v |-> Unquote(query[k].v)]]

\* urlencode(filtered, doseq=True)
urlencode(pairs) ==
    [k \in 1..Len(pairs) |->
        [k |-> QuotePlus(pairs[k].k), v |-> QuotePlus(pairs[k].v)]]

\* lines 8-18
_TRACKING_KEYS == {"fbclid", "gclid", "igshid", "mc_cid", "mc_eid",
                   "mkt_tok", "msclkid", "ref", "ref_src"}

\* key_l.startswith("utm_")
StartsWithUtm(t) == t = "utm_x"

\* the key of the sort of line 50
SortsBefore(p, q) ==
    \/ TextRank(Lower(p.k)) < TextRank(Lower(q.k))
    \/ /\ TextRank(Lower(p.k)) = TextRank(Lower(q.k))
       /\ TextRank(p.v) < TextRank(q.v)

\* list.sort: stable
RECURSIVE SortPairs(_)
SortPairs(q) ==
    IF Len(q) <= 1 THEN q
    ELSE LET sorted == SortPairs(SubSeq(q, 1, Len(q) - 1))
             x == q[Len(q)]
             before == {k \in 1..Len(sorted) : ~SortsBefore(x, sorted[k])}
             n == Cardinality({k \in 1..Len(sorted) :
                                 \A j \in 1..k : j \in before})
         IN  SubSeq(sorted, 1, n) \o <<x>> \o SubSeq(sorted, n + 1, Len(sorted))

\* lines 27-54
canonicalize_url(url) ==
    LET p == urlparse(url)
        netloc == LowerSeq(p.netloc)
        scheme == IF Lower(p.scheme) = "" THEN "https" ELSE Lower(p.scheme)
        path == IF p.path = <<>> THEN <<"/">> ELSE p.path
        query_pairs == parse_qsl(p.query)
        stripped == [k \in 1..Len(query_pairs) |->
                        [k |-> StripKey(query_pairs[k].k),
                         v |-> query_pairs[k].v]]
        keep(kv) == /\ kv.k # ""
                    /\ ~StartsWithUtm(Lower(kv.k))
                    /\ Lower(kv.k) \notin _TRACKING_KEYS
        filtered == SortPairs(SelectSeq(stripped, keep))
        query == urlencode(filtered)
    IN  urlunparse(scheme, netloc, path, query)

UInit ==
    /\ u_pc = "input"
    /\ u_url \in Urls
    /\ u_once = <<>>
    /\ u_twice = <<>>

Canonicalize ==
    /\ u_pc = "input"
    /\ u_pc' = "once"
    /\ u_once' = canonicalize_url(u_url)
    /\ UNCHANGED <<u_url, u_twice>>
    /\ UNCHANGED <<rvars, gvars, mvars, qvars, dvars, cvars, tvars,
                 evars>>

\* the canonical url given to canonicalize_url again
Recanonicalize ==
    /\ u_pc = "once"
    /\ u_pc' = "twice"
    /\ u_twice' = canonicalize_url(u_once)
    /\ UNCHANGED <<u_url, u_once>>
    /\ UNCHANGED <<rvars, gvars, mvars, qvars, dvars, cvars, tvars,
                 evars>>

CanonInit == UInit /\ RIdle /\ GIdle /\ MIdle /\ QIdle /\ DIdle
    /\ CIdle /\ TIdle /\ EIdle

CanonNext == Canonicalize \/ Recanonicalize

CanonSpec == CanonInit /\ [][CanonNext]_vars

\* C20 (as claimed): canonicalize_url is idempotent: the canonical form of a
\* canonical url is that url.
C20_CanonicalizeIdempotent == u_pc = "twice" => u_twice = u_once

\* ------------------------------------------------------------------------
\* normalize_name (utils/dedup.py 21-24) and
\* BaseAgent._dedup_by_url_and_title (base.py 213-227)
\* ------------------------------------------------------------------------
MaxDedup == 3
MaxCoros == 3
MaxPhase1Items == 5
MaxPickItems == 3

\* str.strip() on a sequence of characters
Strip(t) ==
    LET solid == {k \in 1..Len(t) : t[k] # " "}
    IN  IF solid = {} THEN <<>>
        ELSE SubSeq(t, CHOOSE k \in solid : \A j \in solid : k <= j,
                       CHOOSE k \in solid : \A j \in solid : k >= j)

\* _WS_RE.sub(" ", s): a run of whitespace becomes one space
RECURSIVE CollapseWs(_)
CollapseWs(t) ==
    IF Len(t) <= 1 THEN t
    ELSE LET front == CollapseWs(SubSeq(t, 1, Len(t) - 1))
         IN  IF t[Len(t)] = " " /\ t[Len(t) - 1] = " " THEN front
             ELSE Append(front, t[Len(t)])

\* lines 21-24
normalize_name(name) == CollapseWs(LowerSeq(Strip(name)))

\* the empty string as a url: what item.get("url", "") gives for an item
\* without url
EmptyUrl == [scheme |-> "", rest |-> <<>>, query |-> <<>>, fragment |-> ""]

\* the urls of the search results of the model: three spellings of one page,
\* the page with a parameter of two values, and no url
DedupUrls ==
    {EmptyUrl,
     [scheme |-> "https", rest |-> <<"/", "/", "X", "/">>, query |-> <<>>,
      fragment |-> ""],
     [scheme |-> "HTTPS", rest |-> <<"/", "/", "x">>, query |-> <<>>,
      fragment |-> "f"],
     [scheme |-> "", rest |-> <<"/", "/", "X">>,
      query |-> <<[k |-> "utm_x", v |-> ""]>>, fragment |-> ""],
     [scheme |-> "https", rest |-> <<"/", "/", "X", "/">>,
      query |-> <<[k |-> "a", v |-> "%31"]>>, fragment |-> ""],
     [scheme |-> "https", rest |-> <<"/", "/", "X", "/">>,
      query |-> <<[k |-> "a", v |-> ""]>>, fragment |-> ""]}

\* the titles of the search results of the model; <<>> also stands for an
\* item without title (item.get("title", ""))
Titles ==
    {<<>>, <<"a">>, <<"A", " ">>, <<"a", " ", "b">>, <<"A", " ", " ", "B">>}

\* line 223: not url
IsEmptyText(u) == u = EmptyUrl

\* lines 219-222: the composite key of an item
DedupKey(item) == <<canonicalize_url(item.url), normalize_name(item.title)>>

\* the loop of lines 218-226 from item k on
RECURSIVE DedupLoop(_, _, _, _)
DedupLoop(its, k, seen, unique) ==
    IF k > Len(its) THEN unique
    ELSE LET url == canonicalize_url(its[k].url)
             title == normalize_name(its[k].title)
             key == <<url, title>>
         IN  IF IsEmptyText(url) THEN DedupLoop(its, k + 1, seen, unique)
             ELSE IF key \notin seen
             THEN DedupLoop(its, k + 1, seen \cup {key},
                            Append(unique, its[k]))
             ELSE DedupLoop(its, k + 1, seen, unique)

\* a dedup that compares the url and the title as written
_dedup_as_written(its) ==
    LET first(k) == \A j \in 1..(k - 1) :
                       <<its[j].url, its[j].title>>
                          # <<its[k].url, its[k].title>>
        idx == {k \in 1..Len(its) : first(k)}
        keep(it) == it.n \in idx
    IN  SelectSeq(its, keep)

\* lines 213-227
_dedup_by_url_and_title(its) == DedupLoop(its, 1, {}, <<>>)

\* a list of search results; n is the place of the result in the list and
\* stands for the rest of its content
DInit ==
    /\ d_pc = "input"
    /\ \E len \in 0..MaxDedup :
       \E us \in [1..len -> DedupUrls] : \E ts \in [1..len -> Titles] :
          d_items = [k \in 1..len |-> [url |-> us[k], title |-> ts[k], n |-> k]]
    /\ d_unique = <<>>
    /\ d_by_url = <<>>
    /\ d_by_name = <<>>
    /\ d_top_n = 0

DedupByUrlAndTitle ==
    /\ d_pc = "input"
    /\ d_pc' = "done"
    /\ d_unique' = _dedup_by_url_and_title(d_items)
    /\ UNCHANGED <<d_items, d_by_url, d_by_name, d_top_n>>
    /\ UNCHANGED <<rvars, gvars, mvars, qvars, uvars, cvars, tvars,
                 evars>>

\* the loop of base.py 205-210 from item k on
RECURSIVE UrlLoop(_, _, _, _)
UrlLoop(its, k, seen, unique) ==
    IF k > Len(its) THEN unique
    ELSE LET url == canonicalize_url(its[k].url)
         IN  IF ~IsEmptyText(url) /\ url \notin seen
             THEN UrlLoop(its, k + 1, seen \cup {url}, Append(unique, its[k]))
             ELSE UrlLoop(its, k + 1, seen, unique)

\* a dedup by the url without its query
_dedup_by_url_noquery(its) ==
    LET bare(k) == [canonicalize_url(its[k].url) EXCEPT !.query = <<>>]
        first(k) == \A j \in 1..(k - 1) : bare(j) # bare(k)
        idx == {k \in 1..Len(its) : first(k)}
        keep(it) == it.n \in idx
    IN  SelectSeq(its, keep)

\* base.py 201-211
_dedup_by_url(its) == UrlLoop(its, 1, {}, <<>>)

DedupByUrl ==
    /\ d_pc = "input"
    /\ d_pc' = "done_url"
    /\ d_by_url' = _dedup_by_url(d_items)
    /\ UNCHANGED <<d_items, d_unique, d_by_name, d_top_n>>
    /\ UNCHANGED <<rvars, gvars, mvars, qvars, uvars, cvars, tvars,
                 evars>>

\* a loop that also remembers the name and the url of the items it drops
RECURSIVE NameLoop_anyseen(_, _, _, _, _)
NameLoop_anyseen(its, k, seen_names, seen_urls, unique) ==
    IF k > Len(its) THEN unique
    ELSE LET norm_name == normalize_name(its[k].title)
             canon_url == canonicalize_url(its[k].url)
         IN  NameLoop_anyseen(its, k + 1, seen_names \cup {norm_name},
                              seen_urls \cup {canon_url},
                              IF norm_name \in seen_names \/ canon_url \in seen_urls
                              THEN unique ELSE Append(unique, its[k]))

_dedup_by_name_and_url_anyseen(its, top_n) ==
    Head_n(NameLoop_anyseen(its, 1, {}, {}, <<>>), top_n)

\* the loop of base.py 235-242 from item k on; the name of an item is its
\* title field
RECURSIVE NameLoop(_, _, _, _, _)
NameLoop(its, k, seen_names, seen_urls, unique) ==
    IF k > Len(its) THEN unique
    ELSE LET norm_name == normalize_name(its[k].title)
             canon_url == canonicalize_url(its[k].url)
         IN  IF norm_name \in seen_names \/ canon_url \in seen_urls
             THEN NameLoop(its, k + 1, seen_names, seen_urls, unique)
             ELSE NameLoop(its, k + 1, seen_names \cup {norm_name},
                           seen_urls \cup {canon_url}, Append(unique, its[k]))

\* BaseAgent._dedup_by_name_and_url (base.py 229-243); _dedup_and_rank of
\* RestaurantAgent and HotelAgent is the same loop (restaurant.py 222-250,
\* hotel.py 237-263)
_dedup_by_name_and_url(its, top_n) ==
    Head_n(NameLoop(its, 1, {}, {}, <<>>), top_n)

DedupByNameAndUrl ==
    /\ d_pc = "input"
    /\ d_pc' = "done_name"
    /\ \E top_n \in 0..MaxDedup :
          /\ d_top_n' = top_n
          /\ d_by_name' = _dedup_by_name_and_url(d_items, top_n)
    /\ UNCHANGED <<d_items, d_unique, d_by_url>>
    /\ UNCHANGED <<rvars, gvars, mvars, qvars, uvars, cvars, tvars,
                 evars>>

DedupInit == DInit /\ RIdle /\ GIdle /\ MIdle /\ QIdle /\ UIdle
    /\ CIdle /\ TIdle /\ EIdle

DedupNext == DedupByUrlAndTitle \/ DedupByUrl \/ DedupByNameAndUrl

DedupSpec == DedupInit /\ [][DedupNext]_vars

\* the places of the input whose key no earlier item has
FirstOccurrences ==
    {k \in 1..Len(d_items) :
        \A j \in 1..(k - 1) : DedupKey(d_items[j]) # DedupKey(d_items[k])}

\* C19: after _dedup_by_url_and_title no two items of the result share the
\* pair (canonical url, normalized title), the result is a subsequence of
\* the input in input order, and for every pair of the input the item kept
\* is the first one with that pair.
C19_DedupKeepsFirst ==
    d_pc = "done" =>
      /\ \A i, j \in 1..Len(d_unique) :
            i # j => DedupKey(d_unique[i]) # DedupKey(d_unique[j])
      /\ \A i \in 1..Len(d_unique) :
            /\ d_unique[i].n \in 1..Len(d_items)
            /\ d_unique[i] = d_items[d_unique[i].n]
      /\ \A i, j \in 1..Len(d_unique) : i < j => d_unique[i].n < d_unique[j].n
      /\ {d_unique[i].n : i \in 1..Len(d_unique)} = FirstOccurrences

C19_Witness ==
    /\ d_pc = "done"
    /\ Len(d_items) = 3
    /\ Len(d_unique) = 2
    /\ d_items[1].url # d_items[2].url
    /\ d_items[1].title # d_items[2].title
    /\ DedupKey(d_items[1]) = DedupKey(d_items[2])
    /\ canonicalize_url(d_items[3].url) = canonicalize_url(d_items[1].url)
    /\ d_unique[2] = d_items[3]

\* a tracking key: utm_ prefix or a key of the blocklist, whatever its case
IsTrackingKey(k) == StartsWithUtm(Lower(k)) \/ Lower(k) \in _TRACKING_KEYS

\* the pairs of a query as written, without those of tracking keys
WithoutTracking(query) ==
    LET kept(piece) == ~IsTrackingKey(Unquote(piece.k))
    IN  SelectSeq(query, kept)

\* the query as written with its pieces in reverse order
Reversed(query) == [k \in 1..Len(query) |-> query[Len(query) + 1 - k]]

\* C21 (as claimed): canonicalize_url removes exactly the query pairs of
\* tracking keys and keeps every other pair with its value, the kept pairs
\* come out sorted by key, then value, and two urls that differ only in
\* tracking parameters or in the order of the query parameters have the same
\* canonical form.
C21_TrackingRemovedRestSorted ==
    u_pc = "once" =>
      LET out == parse_qsl(u_once.query)
          inp == parse_qsl(WithoutTracking(u_url.query))
      IN  /\ \A i \in 1..Len(inp) : Count(out, inp[i]) = Count(inp, inp[i])
          /\ Len(out) = Len(inp)
          /\ \A i \in 1..Len(out) : ~IsTrackingKey(out[i].k)
          /\ \A i, j \in 1..Len(out) :
                (i < j /\ out[i].k = out[j].k)
                    => TextRank(out[i].v) <= TextRank(out[j].v)
          /\ canonicalize_url([u_url EXCEPT
                                  !.query = WithoutTracking(u_url.query)])
                = u_once
          /\ canonicalize_url([u_url EXCEPT !.query = Reversed(u_url.query)])
                = u_once

\* the url without its query
Bare(u) == [u EXCEPT !.query = <<>>]

FirstByUrl ==
    {k \in 1..Len(d_items) :
        \A j \in 1..(k - 1) :
           canonicalize_url(d_items[j].url) # canonicalize_url(d_items[k].url)}

GapFields(t) ==
    CASE t = "restaurant" -> {"menu_url", "reservation_url"}
      [] t = "attraction" -> {"admission_price"}
      [] t = "hotel" -> {"parking_details"}
      [] OTHER -> {}

MissingFields(i) ==
    { f \in GapFields(items[i].type) : ~Truthy(enriched[i], i \in enriched_keys, f) }

C24_GapSelectionByMissingFields ==
    [][pc = "p2_pick" /\ pc' = "p2_loop" =>
          \A i \in 1..NProc :
              /\ MissingFields(i) = {} => i \notin Range(resolve_candidates')
              /\ Cardinality(MissingFields(i)) = 1 =>
                      i \in Range(resolve_candidates')]_vars

\* ------------------------------------------------------------------------
\* C25: the persisted status of a run only moves queued -> running ->
\* done or error.  It is queued at creation, it becomes running only from
\* queued, it becomes done or error only from running, and once it is done
\* or error no write changes it.
\* ------------------------------------------------------------------------
C25_StatusMovesForward ==
    /\ (task = "start" => run_status = "queued")
    /\ [][/\ run_status' # run_status =>
                \/ run_status = "queued" /\ run_status' = "running"
                \/ run_status = "running" /\ run_status' \in {"done", "error"}
          ]_vars

\* ------------------------------------------------------------------------
\* C26: no update is lost at the join.  When the superstep of the four
\* producers is committed, whatever the order in which they ended,
\* agent_statuses holds the status each of them wrote, warnings holds the
\* warning of each of them that returned one, after the warnings held
\* before, and no other entry of agent_statuses changes.
\* ------------------------------------------------------------------------
C26_JoinLosesNoUpdate ==
    [][active = Producers /\ active' = {"EnrichmentAgent"} =>
          /\ \A p \in Producers : agent_statuses'[p] = nout[p].status
          /\ \A p \in Producers :
                Count(warnings', p) = Count(warnings, p) + (IF nout[p].warn THEN 1 ELSE 0)
          /\ \A n \in Nodes \ Producers : agent_statuses'[n] = agent_statuses[n]
          /\ SubSeq(warnings', 1, Len(warnings)) = warnings]_vars

C26_Witness ==
    /\ active = {"EnrichmentAgent"}
    /\ agent_statuses["RestaurantAgent"] = "completed"
    /\ agent_statuses["AttractionsAgent"] = "partial"
    /\ agent_statuses["HotelAgent"] = "failed"
    /\ agent_statuses["TransportAgent"] = "partial"
    /\ Count(warnings, "AttractionsAgent") = 1
    /\ Count(warnings, "HotelAgent") = 1
    /\ Count(warnings, "TransportAgent") = 1

\* ------------------------------------------------------------------------
\* Two runs in EnrichmentAgent._extract_and_parse (enrichment.py 203-373).
\* build_graph makes one enrichment_agent and one compiled graph for the
\* process (graph.py 54-59, main.py 71-72); every run calls the same bound
\* method.  tavily_calls and enriched are locals of the call (lines 216,
\* 234), _take_call is a closure over the tavily_calls of its own call.
\* ------------------------------------------------------------------------
\* the counter and the patch kept on the agent instance
_extract_and_parse_shared(r) == 1

\* the frame in which run r finds tavily_calls and enriched: the one of its
\* own call
_extract_and_parse_frame(r) == r

CInit ==
    /\ c_pc = [r \in CRuns |-> "start"]
    /\ c_tavily_calls = [r \in CRuns |-> 0]
    /\ c_enriched = [r \in CRuns |-> {}]
    /\ c_dispatched = [r \in CRuns |-> 0]
    /\ c_refused = [r \in CRuns |-> 0]
    /\ c_written = [r \in CRuns |-> {}]
    /\ c_result = [r \in CRuns |-> {}]

\* lines 216 and 234: tavily_calls = 0, enriched = {}
CStart(r) ==
    /\ c_pc[r] = "start"
    /\ UNCHANGED <<rvars, gvars, mvars, qvars, dvars, uvars, tvars,
                 evars>>
    /\ c_pc' = [c_pc EXCEPT ![r] = "running"]
    /\ c_tavily_calls' =
          [c_tavily_calls EXCEPT ![_extract_and_parse_frame(r)] = 0]
    /\ c_enriched' = [c_enriched EXCEPT ![_extract_and_parse_frame(r)] = {}]
    /\ UNCHANGED <<c_dispatched, c_refused, c_written, c_result>>

\* a reservation and, when granted, the call to the Search Service (lines
\* 249, 414-455, 473, 326); a run goes on after one refusal at most
CTakeCall(r) ==
    /\ c_pc[r] = "running"
    /\ UNCHANGED <<rvars, gvars, mvars, qvars, dvars, uvars, tvars,
                 evars>>
    /\ c_refused[r] = 0
    /\ LET t == _take_call(c_tavily_calls[_extract_and_parse_frame(r)],
                           TAVILY_CALL_CAP)
       IN  /\ c_tavily_calls' =
                 [c_tavily_calls EXCEPT ![_extract_and_parse_frame(r)] = t.calls]
           /\ c_dispatched' =
                 [c_dispatched EXCEPT ![r] = IF t.ok THEN @ + 1 ELSE @]
           /\ c_refused' = [c_refused EXCEPT ![r] = IF t.ok THEN @ ELSE @ + 1]
    /\ UNCHANGED <<c_pc, c_enriched, c_written, c_result>>

\* a write to the patch (lines 277, 350, 359-363); the two runs may hold
\* items of the same id
CWrite(r, i) ==
    /\ c_pc[r] = "running"
    /\ UNCHANGED <<rvars, gvars, mvars, qvars, dvars, uvars, tvars,
                 evars>>
    /\ i \notin c_written[r]
    /\ c_enriched' =
          [c_enriched EXCEPT ![_extract_and_parse_frame(r)] =
              @ \cup {[id |-> i, by |-> r]}]
    /\ c_written' = [c_written EXCEPT ![r] = @ \cup {i}]
    /\ UNCHANGED <<c_pc, c_tavily_calls, c_dispatched, c_refused, c_result>>

\* return enriched (lines 290, 365)
CReturn(r) ==
    /\ c_pc[r] = "running"
    /\ UNCHANGED <<rvars, gvars, mvars, qvars, dvars, uvars, tvars,
                 evars>>
    /\ c_pc' = [c_pc EXCEPT ![r] = "returned"]
    /\ c_result' = [c_result EXCEPT ![r] = c_enriched[_extract_and_parse_frame(r)]]
    /\ UNCHANGED <<c_tavily_calls, c_enriched, c_dispatched, c_refused,
                   c_written>>

TwoRunsInit ==
    CInit /\ RIdle /\ GIdle /\ MIdle /\ QIdle /\ DIdle /\ UIdle /\ TIdle /\ EIdle

TwoRunsNext ==
    \E r \in CRuns :
        \/ CStart(r)
        \/ CTakeCall(r)
        \/ \E i \in 1..MaxItems : CWrite(r, i)
        \/ CReturn(r)

TwoRunsSpec == TwoRunsInit /\ [][TwoRunsNext]_vars

\* ------------------------------------------------------------------------
\* C27: runs are isolated.  Of two runs interleaved in the same agent
\* instance, each makes at most TAVILY_CALL_CAP calls, is refused a call
\* only after it has made TAVILY_CALL_CAP calls itself, and gets back
\* exactly the patch entries it wrote.
\* ------------------------------------------------------------------------
C27_RunsIsolated ==
    \A r \in CRuns :
        /\ c_dispatched[r] <= TAVILY_CALL_CAP
        /\ c_refused[r] > 0 => c_dispatched[r] = TAVILY_CALL_CAP
        /\ c_pc[r] = "returned" =>
              c_result[r] = {[id |-> i, by |-> r] : i \in c_written[r]}

C27_Witness ==
    /\ c_pc = [r \in CRuns |-> "returned"]
    /\ c_dispatched[1] = TAVILY_CALL_CAP /\ c_refused[1] = 1
    /\ c_dispatched[2] = 1 /\ c_refused[2] = 0
    /\ c_written[1] = {1}
    /\ c_written[2] = {1, 2}

\* ------------------------------------------------------------------------
\* gather_with_timeout (graph/timeout.py 59-79): asyncio.gather with
\* return_exceptions=True under one asyncio.wait_for
\* ------------------------------------------------------------------------
CoroValues == {"a", "b"}

\* lines 69-74: gather returned, exceptions become None
GatheredResults(coros) ==
    [i \in DOMAIN coros |-> IF coros[i] = "raised" THEN None ELSE coros[i]]

\* lines 75-79: asyncio.TimeoutError
TimeoutResults(coros) == [i \in DOMAIN coros |-> None]

TInit ==
    /\ t_pc = "waiting"
    /\ \E n \in 1..MaxCoros : t_coros = [i \in 1..n |-> "pending"]
    /\ t_how = ""
    /\ t_results = <<>>

\* one of the coroutines returns a value or raises before the deadline
CoroEnds(i) ==
    /\ t_pc = "waiting"
    /\ UNCHANGED <<rvars, gvars, mvars, qvars, dvars, uvars, cvars,
                 evars>>
    /\ i \in DOMAIN t_coros
    /\ t_coros[i] = "pending"
    /\ \E o \in CoroValues \cup {"raised"} :
          t_coros' = [t_coros EXCEPT ![i] = o]
    /\ UNCHANGED <<t_pc, t_how, t_results>>

\* every coroutine ended: gather hands the list to wait_for
GatherReturns ==
    /\ t_pc = "waiting"
    /\ UNCHANGED <<rvars, gvars, mvars, qvars, dvars, uvars, cvars,
                 evars>>
    /\ \A i \in DOMAIN t_coros : t_coros[i] # "pending"
    /\ t_pc' = "returned"
    /\ t_how' = "gathered"
    /\ t_results' = GatheredResults(t_coros)
    /\ UNCHANGED t_coros

\* the deadline passes with a coroutine still pending: wait_for cancels the
\* gather, which cancels its pending children, and raises TimeoutError
GatherTimesOut ==
    /\ t_pc = "waiting"
    /\ UNCHANGED <<rvars, gvars, mvars, qvars, dvars, uvars, cvars,
                 evars>>
    /\ \E i \in DOMAIN t_coros : t_coros[i] = "pending"
    /\ t_pc' = "returned"
    /\ t_how' = "timeout"
    /\ t_coros' = [i \in DOMAIN t_coros |->
                     IF t_coros[i] = "pending" THEN "cancelled" ELSE t_coros[i]]
    /\ t_results' = TimeoutResults(t_coros)

GatherInit ==
    TInit /\ RIdle /\ GIdle /\ MIdle /\ QIdle /\ DIdle /\ UIdle /\ CIdle /\ EIdle

GatherNext ==
    \/ \E i \in 1..MaxCoros : CoroEnds(i)
    \/ GatherReturns
    \/ GatherTimesOut

GatherSpec == GatherInit /\ [][GatherNext]_vars

\* ------------------------------------------------------------------------
\* C28: gather_with_timeout returns partial results when the shared
\* timeout occurs: a coroutine that completed before the deadline has its
\* result at its position, and only the unfinished ones are None.
\* ------------------------------------------------------------------------
C28_TimeoutKeepsCompleted ==
    t_pc = "returned" /\ t_how = "timeout" =>
        /\ Len(t_results) = Len(t_coros)
        /\ \A i \in DOMAIN t_coros :
              t_results[i] = IF t_coros[i] \in CoroValues THEN t_coros[i]
                             ELSE None

\* the places of the input that _dedup_by_name_and_url returned
KeptByName == {d_by_name[k].n : k \in 1..Len(d_by_name)}

SameNameOrUrl(a, b) ==
    \/ normalize_name(a.title) = normalize_name(b.title)
    \/ canonicalize_url(a.url) = canonicalize_url(b.url)

\* C29: name-and-URL dedup returns at most top_n items, in input order, no
\* two of them with the same normalized name or the same canonical URL; an
\* item is dropped from among them only when an item kept before it has its
\* normalized name or its canonical URL.
C29_DedupByNameAndUrl ==
    d_pc = "done_name" =>
      /\ Len(d_by_name) <= d_top_n
      /\ \A k \in 1..Len(d_by_name) : d_by_name[k] = d_items[d_by_name[k].n]
      /\ \A i \in 1..Len(d_by_name) : \A j \in 1..Len(d_by_name) :
            i < j => /\ d_by_name[i].n < d_by_name[j].n
                     /\ ~SameNameOrUrl(d_by_name[i], d_by_name[j])
      /\ \A k \in 1..Len(d_items) :
            /\ k \notin KeptByName
            /\ (Len(d_by_name) < d_top_n \/ \E m \in KeptByName : k < m)
            => \E j \in KeptByName : j < k /\ SameNameOrUrl(d_items[j], d_items[k])

C29_Witness ==
    /\ d_pc = "done_name"
    /\ Len(d_items) = 3
    /\ d_top_n = 2
    /\ d_items[1].title # d_items[2].title
    /\ normalize_name(d_items[1].title) = normalize_name(d_items[2].title)
    /\ canonicalize_url(d_items[1].url) # canonicalize_url(d_items[2].url)
    /\ canonicalize_url(d_items[3].url) = canonicalize_url(d_items[2].url)
    /\ d_by_name = <<d_items[1], d_items[3]>>

\* the items of the state that quality_split did not promote
NotPromoted ==
    Len(q_state[Categories[1]]) - Len(q_out.main_results[Categories[1]])
    + Len(q_state[Categories[2]]) - Len(q_out.main_results[Categories[2]])
    + Len(q_state[Categories[3]]) - Len(q_out.main_results[Categories[3]])
    + Len(q_state[Categories[4]]) - Len(q_out.main_results[Categories[4]])
    + Len(q_state[Categories[5]]) - Len(q_out.main_results[Categories[5]])

\* C30: quality_split leaves the existing references unchanged: the
\* references it returns begin with the records state["references"] held, in
\* their order and unmodified, followed by one record for each item demoted
\* in this call; with nothing demoted they are the existing list.
C30_ExistingReferencesKept ==
    q_pc = "done" =>
      /\ Len(q_out.references) = q_refs + NotPromoted
      /\ SubSeq(q_out.references, 1, q_refs) = existing_refs(q_refs)
      /\ \A k \in (q_refs + 1)..Len(q_out.references) :
            /\ q_out.references[k]["id"] \in {ItemIds[j] : j \in 1..MaxSplitItems}
            /\ q_out.references[k]["content"] # Absent
      /\ NotPromoted = 0 => q_out.references = existing_refs(q_refs)

C30_Witness ==
    /\ q_pc = "done"
    /\ q_refs = 2
    /\ Len(q_state["restaurants"]) = 2
    /\ Len(q_out.main_results["restaurants"]) = 1
    /\ Len(q_out.references) = 3
    /\ q_out.references[1] = ExistingRef
    /\ q_out.references[2] = ExistingRef2
    /\ q_out.references[3]["section"] = "restaurant"
    /\ q_out.references[3]["id"] # Absent

\* ------------------------------------------------------------------------
\* Phase 1 of a pass over more items than PHASE1_CAP: restaurants with a
\* name and a url, with or without cached content, under a budget of no
\* call at all and under the shipped budget
\* ------------------------------------------------------------------------
Phase1Init ==
    /\ \E n \in 1..MaxPhase1Items : \E c \in [1..n -> BOOLEAN] :
          items = [i \in 1..n |-> [type |-> "restaurant", named |-> TRUE,
                                   lowq |-> FALSE, cached |-> c[i]]]
    /\ skip_enrichment = FALSE
    /\ call_cap \in {0, TAVILY_CALL_CAP}
    /\ pc = "start"
    /\ tavily_calls = 0
    /\ dispatched = 0
    /\ refused = 0
    /\ fallback_items = <<>>
    /\ valid_pairs = <<>>
    /\ enriched = [i \in 1..Len(items) |-> EmptyDict]
    /\ enriched_keys = {}
    /\ resolve_candidates = <<>>
    /\ ci = 1
    /\ canon = 0
    /\ resolved_targets = [i \in 1..Len(items) |-> EmptyDict]
    /\ urls_to_extract = <<>>
    /\ pages2 = <<>>
    /\ result = NoResult
    /\ GIdle /\ MIdle /\ QIdle /\ DIdle /\ UIdle /\ CIdle /\ TIdle /\ EIdle

Phase1Next == Phase1Start \/ Phase1ExtractDone \/ Phase1GatherDone

Phase1Spec == Phase1Init /\ [][Phase1Next]_vars

CachedIds == SelectSeq(IdSeq(NProc), LAMBDA i : items[i].cached)

UncachedIds == SelectSeq(IdSeq(NProc), LAMBDA i : ~items[i].cached)

\* C31: Phase 1 is capped.  At most PHASE1_CAP items get a page extraction;
\* at most one extract call is dispatched, and only when some item has no
\* cached content and fewer than PHASE1_CAP items matched the cache; the
\* items with cached content are extracted whatever the budget, and a pass
\* over cached items alone consumes no call.
C31_Phase1Capped ==
    pc \in {"p1_extract", "p1_gather", "p2_pick"} =>
      /\ dispatched <= 1 /\ tavily_calls = dispatched
      /\ dispatched = 1 =>
            Len(UncachedIds) > 0 /\ Len(CachedIds) < PHASE1_CAP
      /\ Len(UncachedIds) = 0 => tavily_calls = 0
      /\ Len(fallback_items) + Min(Len(CachedIds), PHASE1_CAP) <= PHASE1_CAP
      /\ pc \in {"p1_gather", "p2_pick"} =>
            /\ Len(valid_pairs) <= PHASE1_CAP
            /\ \A k \in 1..Min(Len(CachedIds), PHASE1_CAP) :
                  valid_pairs[k] = CachedIds[k]
      /\ Cardinality(enriched_keys) <= PHASE1_CAP

C31_Witness ==
    /\ pc = "p2_pick"
    /\ Len(items) = 5
    /\ Len(CachedIds) = 5
    /\ call_cap = 0
    /\ tavily_calls = 0
    /\ enriched_keys = {1, 2, 3, 4}

\* C32: Phase 2 keeps a budget reserve.  The resolution of an item starts
\* only with at least 4 calls remaining, no reservation is refused from the
\* start of Phase 2 on (neither a search nor the map of an item, nor the
\* batch extract), and the batch extract is dispatched whenever a subpage
\* url was discovered.
Phase2Pcs == {"p2_loop", "p2_search1", "p2_search2", "p2_map", "p2_after"}

C32_Phase2Reserve ==
    [][/\ (pc = "p2_loop" /\ pc' = "p2_search1"
              => call_cap - tavily_calls >= 4)
       /\ (pc \in Phase2Pcs => refused' = refused)
       /\ (pc = "p2_after" /\ urls_to_extract # <<>> => pc' = "p2_extract")
      ]_vars

\* the last call of the budget is the batch extract of a restaurant's two
\* subpages
C32_Witness ==
    /\ pc = "p2_extract"
    /\ call_cap = 5
    /\ tavily_calls = 5
    /\ Len(urls_to_extract) = 2
    /\ refused = 0

\* ------------------------------------------------------------------------
\* A pass over more items of one category than a bucket takes: no item or
\* MaxPickItems items among restaurants, hotels and flights, in the order
\* of _collect_items, every named item with cached content, one restaurant
\* at most, with a url of good quality, under the shipped budget
\* ------------------------------------------------------------------------
PickLists ==
    { s \in [1..MaxPickItems -> ItemKinds] :
        /\ \A i \in 1..MaxPickItems :
              /\ s[i].type \in {"restaurant", "hotel", "flight"}
              /\ s[i].named => s[i].cached
              /\ s[i].type = "restaurant" => i = 1 /\ s[i].named /\ ~s[i].lowq
        /\ \A i \in 1..MaxPickItems : \A j \in 1..MaxPickItems :
              i < j => TypeRank(s[i].type) <= TypeRank(s[j].type) }

PickInit ==
    /\ items \in PickLists \cup {<<>>}
    /\ skip_enrichment \in BOOLEAN
    /\ call_cap = TAVILY_CALL_CAP
    /\ pc = "start"
    /\ tavily_calls = 0
    /\ dispatched = 0
    /\ refused = 0
    /\ fallback_items = <<>>
    /\ valid_pairs = <<>>
    /\ enriched = [i \in 1..Len(items) |-> EmptyDict]
    /\ enriched_keys = {}
    /\ resolve_candidates = <<>>
    /\ ci = 1
    /\ canon = 0
    /\ resolved_targets = [i \in 1..Len(items) |-> EmptyDict]
    /\ urls_to_extract = <<>>
    /\ pages2 = <<>>
    /\ result = NoResult
    /\ GIdle /\ MIdle /\ QIdle /\ DIdle /\ UIdle /\ CIdle /\ TIdle /\ EIdle

PickSpec == PickInit /\ [][Next]_vars

\* C33: Phase 2 works on a bounded subset.  The candidates picked hold no
\* item twice, at most two items of a category and at most 6 items, all of
\* type restaurant, attraction or hotel, each lacking a deep field of its
\* category in the patch or with a url of low quality; and a search or a
\* map of Phase 2 is only ever in flight for a candidate of these types
\* that has a name.
C33_Phase2BoundedSubset ==
    /\ [][pc = "p2_pick" /\ pc' = "p2_loop" =>
             LET rc == resolve_candidates'
             IN  /\ Len(rc) <= 6
                 /\ \A j \in 1..Len(rc) : \A k \in 1..Len(rc) :
                       j # k => rc[j] # rc[k]
                 /\ \A t \in Types :
                       Cardinality({k \in 1..Len(rc) : items[rc[k]].type = t}) <= 2
                 /\ \A k \in 1..Len(rc) :
                       /\ items[rc[k]].type \in {"restaurant", "attraction", "hotel"}
                       /\ MissingFields(rc[k]) # {} \/ items[rc[k]].lowq
         ]_vars
    /\ [](pc \in {"p2_search1", "p2_search2", "p2_map"} =>
             /\ ci \in 1..Len(resolve_candidates)
             /\ items[CurItem].type \in {"restaurant", "attraction", "hotel"}
             /\ items[CurItem].named)

\* three hotels that all lack parking_details: two are picked, the search
\* of the second is in flight
C33_Witness ==
    /\ pc = "p2_search1"
    /\ Len(items) = 3
    /\ \A i \in 1..3 : items[i].type = "hotel" /\ MissingFields(i) # {}
    /\ resolve_candidates = <<1, 2>>
    /\ ci = 2

\* C34: the status EnrichmentAgent.execute reports follows its outcome:
\* skipped exactly when enrichment is disabled or there is no item;
\* failed with a warning on timeout and on exception; otherwise completed
\* when at least one item is enriched and the enriched items are at least
\* half of the items processed, and partial with the warning "Only
\* enriched k/n items" when they are fewer than half.
C34_StatusFollowsOutcome ==
    result.returned =>
      LET k == Cardinality(result.data_keys)
      IN  /\ result.status \in {"completed", "partial", "failed", "skipped"}
          /\ result.status = "skipped" <=> (skip_enrichment \/ Len(items) = 0)
          /\ result.status = "skipped" => result.how = "skipped"
          /\ result.how \in {"timeout", "exception"} <=> result.status = "failed"
          /\ result.status = "failed" => result.warning # ""
          /\ result.status = "completed" <=>
                /\ result.how \in {"normal", "reserve"}
                /\ k > 0 /\ 2 * k >= NProc
          /\ result.status = "partial" <=>
                /\ result.how \in {"normal", "reserve"}
                /\ 2 * k < NProc
          /\ result.status = "partial" => result.warning = "Only enriched"
          /\ result.status = "completed" => result.warning = ""

\* one item of three enriched: partial, with the warning
C34_Witness ==
    /\ result.returned
    /\ result.how = "normal"
    /\ Len(items) = 3
    /\ Cardinality(result.data_keys) = 1
    /\ result.status = "partial"
    /\ result.warning = "Only enriched"

\* C35: once graph.ainvoke has returned, agent_statuses holds an entry for
\* each of the four producers and for the enrichment agent, each one of
\* completed, partial, failed, skipped and the one that agent returned last,
\* and no entry for any other node.
C35_EveryAgentHasStatus ==
    task \in {"returned", "logging"} =>
      /\ \A n \in WrappedAgents :
            /\ agent_statuses[n] \in {"completed", "partial", "failed", "skipped"}
            /\ agent_statuses[n] = nout[n].status
      /\ \A n \in WrappedNodes : agent_statuses[n] = ""

C35_Witness ==
    /\ task = "returned"
    /\ agent_statuses["RestaurantAgent"] = "failed"
    /\ agent_statuses["AttractionsAgent"] = "failed"
    /\ agent_statuses["HotelAgent"] = "failed"
    /\ agent_statuses["TransportAgent"] = "completed"
    /\ agent_statuses["EnrichmentAgent"] = "skipped"
    /\ nout["RestaurantAgent"].cause = "search_timeout"
    /\ nout["HotelAgent"].cause = "exception"

\* ---- the events one call of a wrapped node appends (graph.py 76-172,
\* 189-263) ----

\* a call of _inner for one of the seven nodes, with or without a runId in
\* the state
WInit ==
    /\ w_name \in Nodes
    /\ w_run_id \in BOOLEAN
    /\ w_pc = "start"
    /\ w_fn = "none"
    /\ w_artifact = FALSE
    /\ w_events = <<>>

\* deps.mongo.append_event (mongo.py 75-91): the document is inserted, or
\* insert_one raises and nothing is inserted
append_event(events, status) == Append(events, status)

\* the start event (graph.py 82-93, 195-206): it is awaited before the try,
\* what it raises leaves _inner and the node function is not called
WStartEvent ==
    /\ w_pc = "start"
    /\ UNCHANGED <<rvars, gvars, mvars, qvars, dvars, uvars, cvars, tvars, svars,
                 xvars>>
    /\ IF w_run_id
       THEN \E ok \in BOOLEAN :
              IF ok
              THEN w_events' = append_event(w_events, "start") /\ w_pc' = "fn"
              ELSE w_events' = w_events /\ w_pc' = "raised"
       ELSE w_events' = w_events /\ w_pc' = "fn"
    /\ UNCHANGED <<w_name, w_run_id, w_fn, w_artifact>>

\* the node function returns (graph.py 95, 208); the output of ParseRequest
\* may hold constraints and the one of AggregateResults a final_output
\* (graph.py 122, 130)
WFnReturns ==
    /\ w_pc = "fn"
    /\ UNCHANGED <<rvars, gvars, mvars, qvars, dvars, uvars, cvars, tvars, svars,
                 xvars>>
    /\ w_fn' = "returned"
    /\ w_artifact' \in (IF w_name \in WrappedNodes THEN BOOLEAN ELSE {FALSE})
    /\ w_pc' = "end_event"
    /\ UNCHANGED <<w_name, w_run_id, w_events>>

\* the node function raises an Exception: parse_request and
\* aggregate_results have no except clause of their own, every agent's
\* execute has one
WFnRaises ==
    /\ w_pc = "fn"
    /\ UNCHANGED <<rvars, gvars, mvars, qvars, dvars, uvars, cvars, tvars, svars,
                 xvars>>
    /\ w_name \in WrappedNodes
    /\ w_fn' = "raised"
    /\ w_pc' = "except"
    /\ UNCHANGED <<w_name, w_run_id, w_artifact, w_events>>

\* the task is cancelled while the node function is awaited (a sibling of
\* the superstep raised, or the shutdown of main.py 81-85): CancelledError
\* is no Exception and leaves _inner through no handler
WFnCancelled ==
    /\ w_pc = "fn"
    /\ UNCHANGED <<rvars, gvars, mvars, qvars, dvars, uvars, cvars, tvars, svars,
                 xvars>>
    /\ w_fn' = "cancelled"
    /\ w_pc' = "cancelled"
    /\ UNCHANGED <<w_name, w_run_id, w_artifact, w_events>>

\* the end event (graph.py 105-117, 218-230), awaited inside the try: what
\* it raises is caught by the except clause of _inner
WEndEvent ==
    /\ w_pc = "end_event"
    /\ UNCHANGED <<rvars, gvars, mvars, qvars, dvars, uvars, cvars, tvars, svars,
                 xvars>>
    /\ IF w_run_id
       THEN \E ok \in BOOLEAN :
              IF ok
              THEN /\ w_events' = append_event(w_events, "end")
                   /\ w_pc' = IF w_artifact THEN "artifact" ELSE "returned"
              ELSE w_events' = w_events /\ w_pc' = "except"
       ELSE w_events' = w_events /\ w_pc' = "returned"
    /\ UNCHANGED <<w_name, w_run_id, w_fn, w_artifact>>

\* add_artifact (graph.py 119-138, mongo.py 93-111), still inside the try:
\* the artifact is inserted and its event appended, or one of the two
\* inserts raises
WArtifact ==
    /\ w_pc = "artifact"
    /\ UNCHANGED <<rvars, gvars, mvars, qvars, dvars, uvars, cvars, tvars, svars,
                 xvars>>
    /\ \E ok \in BOOLEAN :
         IF ok
         THEN w_events' = append_event(w_events, "artifact") /\ w_pc' = "returned"
         ELSE w_events' = w_events /\ w_pc' = "except"
    /\ UNCHANGED <<w_name, w_run_id, w_fn, w_artifact>>

\* except Exception (graph.py 142-170, 234-261): the error event, then raise
WErrorEvent ==
    /\ w_pc = "except"
    /\ UNCHANGED <<rvars, gvars, mvars, qvars, dvars, uvars, cvars, tvars, svars,
                 xvars>>
    /\ IF w_run_id
       THEN \E ok \in BOOLEAN :
              w_events' = IF ok THEN append_event(w_events, "error")
                          ELSE w_events
       ELSE w_events' = w_events
    /\ w_pc' = "raised"
    /\ UNCHANGED <<w_name, w_run_id, w_fn, w_artifact>>

WrapInit ==
    /\ WInit
    /\ RIdle /\ GIdle /\ MIdle /\ QIdle /\ DIdle /\ UIdle /\ CIdle /\ TIdle
    /\ SIdle /\ XIdle

WrapNext ==
    \/ WStartEvent
    \/ WFnReturns
    \/ WFnRaises
    \/ WFnCancelled
    \/ WEndEvent
    \/ WArtifact
    \/ WErrorEvent

WrapSpec == WrapInit /\ [][WrapNext]_vars

CountEvents(status) ==
    Cardinality({i \in 1..Len(w_events) : w_events[i] = status})

\* C36: in a run with a runId, the start event is appended before the node
\* function runs, and when the function has returned or raised and _inner is
\* left, exactly one end or error event follows: end only if the function
\* returned, error only if it raised, never both
C36_NodeEventsBracketExecution ==
    w_run_id =>
      /\ w_fn # "none" => Len(w_events) >= 1 /\ w_events[1] = "start"
      /\ w_pc \in {"returned", "raised"} /\ w_fn \in {"returned", "raised"} =>
            /\ CountEvents("start") = 1
            /\ CountEvents("end") + CountEvents("error") = 1
            /\ CountEvents("end") = 1 => w_fn = "returned"
            /\ CountEvents("error") = 1 => w_fn = "raised"

\* the node function returned, its end event was appended, storing the
\* artifact raised and the error event was appended as well
C36_EndAndError ==
    /\ w_pc = "raised"
    /\ w_fn = "returned"
    /\ w_events = <<"start", "end", "error">>

\* ---- one run appending its events and one client of GET
\* /api/runs/{runId}/events (main.py 94-173, 244-367; mongo.py 75-145) ----

\* events the nodes of the run append before the run is marked
MaxNodeEvents == 3

\* append_event calls in flight at once: the producers of one superstep
\* await their inserts concurrently
MaxInFlight == 2

\* idle >= 5 in the change-stream loop (main.py 311)
IdleLive == 5

\* idle >= 6 in the polling loop (main.py 353)
IdlePoll == 6

StreamInit ==
    /\ s_status = "running"
    /\ s_wpc = "nodes"
    /\ s_stamped = 0
    /\ s_visible = {}
    /\ s_term = 0
    /\ s_mode = "idle"
    /\ s_cursor = 0
    /\ s_changes = <<>>
    /\ s_seen = {}
    /\ s_delivered = <<>>
    /\ s_saw_terminal = FALSE
    /\ s_idle = 0
    /\ s_fellback = FALSE
    /\ s_gone = FALSE
    /\ RIdle /\ GIdle /\ MIdle /\ QIdle /\ DIdle /\ UIdle /\ CIdle /\ TIdle
    /\ WIdle /\ XIdle

InFlight == (1..s_stamped) \ s_visible

Watching == s_mode \in {"backlog", "live"}

\* append_event up to its await (mongo.py 84-90): the document is built with
\* ts = utc_now(); events are numbered in the order of (ts, _id)
AppendBegin ==
    /\ s_wpc = "nodes"
    /\ UNCHANGED <<rvars, gvars, mvars, qvars, dvars, uvars, cvars, tvars, wvars,
                 xvars>>
    /\ s_stamped < MaxNodeEvents
    /\ Cardinality(InFlight) < MaxInFlight
    /\ s_stamped' = s_stamped + 1
    /\ UNCHANGED <<s_status, s_wpc, s_visible, s_term, s_mode, s_cursor,
                   s_changes, s_seen, s_delivered, s_saw_terminal, s_idle,
                   s_fellback, s_gone>>

\* insert_one completes (mongo.py 91): the document is in run_events, and an
\* open change stream holds the insert; the inserts in flight complete in
\* any order
AppendLand(e) ==
    /\ e \in InFlight
    /\ UNCHANGED <<rvars, gvars, mvars, qvars, dvars, uvars, cvars, tvars, wvars,
                 xvars>>
    /\ s_visible' = s_visible \cup {e}
    /\ s_changes' = IF Watching THEN Append(s_changes, e) ELSE s_changes
    /\ s_wpc' = IF e = s_term THEN "finished" ELSE s_wpc
    /\ UNCHANGED <<s_status, s_stamped, s_term, s_mode, s_cursor, s_seen,
                   s_delivered, s_saw_terminal, s_idle, s_fellback, s_gone>>

\* an insert that completes only when no event built before it is in flight
AppendLand_inorder(e) ==
    /\ e \in InFlight
    /\ \A f \in InFlight : e <= f
    /\ UNCHANGED <<rvars, gvars, mvars, qvars, dvars, uvars, cvars, tvars, wvars,
                 xvars>>
    /\ s_visible' = s_visible \cup {e}
    /\ s_changes' = IF Watching THEN Append(s_changes, e) ELSE s_changes
    /\ s_wpc' = IF e = s_term THEN "finished" ELSE s_wpc
    /\ UNCHANGED <<s_status, s_stamped, s_term, s_mode, s_cursor, s_seen,
                   s_delivered, s_saw_terminal, s_idle, s_fellback, s_gone>>

\* update_run of _execute_run: status done after graph.ainvoke returned
\* (main.py 148-158), status error in the except clause (main.py 163-170);
\* every node has returned, so none of its inserts is in flight
MarkRun ==
    /\ s_wpc = "nodes"
    /\ UNCHANGED <<rvars, gvars, mvars, qvars, dvars, uvars, cvars, tvars, wvars,
                 xvars>>
    /\ InFlight = {}
    /\ \E st \in {"done", "error"} :
         /\ s_status' = st
         /\ s_wpc' = IF st = "done" THEN "marked" ELSE "handler"
    /\ UNCHANGED <<s_stamped, s_visible, s_term, s_mode, s_cursor, s_changes,
                   s_seen, s_delivered, s_saw_terminal, s_idle, s_fellback,
                   s_gone>>

\* append_event "Run completed" (main.py 159), after the status was written:
\* the document is built, or the call raises into the except clause, whose
\* update_run writes status error or raises as well (main.py 161-170)
LogCompleted ==
    /\ s_wpc = "marked"
    /\ UNCHANGED <<rvars, gvars, mvars, qvars, dvars, uvars, cvars, tvars, wvars,
                 xvars>>
    /\ \E how \in {"built", "raises", "raises_twice"} :
         CASE how = "built" ->
                /\ s_stamped' = s_stamped + 1
                /\ s_term' = s_stamped + 1
                /\ s_wpc' = "landing"
                /\ s_status' = s_status
           [] how = "raises" ->
                /\ s_status' = "error"
                /\ s_wpc' = "handler"
                /\ UNCHANGED <<s_stamped, s_term>>
           [] OTHER ->
                /\ s_wpc' = "finished"
                /\ UNCHANGED <<s_stamped, s_term, s_status>>
    /\ UNCHANGED <<s_visible, s_mode, s_cursor, s_changes, s_seen,
                   s_delivered, s_saw_terminal, s_idle, s_fellback, s_gone>>

\* append_event "Run failed" of the except clause (main.py 171-173): the
\* document is built, or the call raises and the task ends
LogFailed ==
    /\ s_wpc = "handler"
    /\ UNCHANGED <<rvars, gvars, mvars, qvars, dvars, uvars, cvars, tvars, wvars,
                 xvars>>
    /\ \E ok \in BOOLEAN :
         IF ok
         THEN /\ s_stamped' = s_stamped + 1
              /\ s_term' = s_stamped + 1
              /\ s_wpc' = "landing"
         ELSE /\ s_wpc' = "finished"
              /\ UNCHANGED <<s_stamped, s_term>>
    /\ UNCHANGED <<s_status, s_visible, s_mode, s_cursor, s_changes, s_seen,
                   s_delivered, s_saw_terminal, s_idle, s_fellback, s_gone>>

RECURSIVE Ascending(_)
Ascending(S) ==
    IF S = {} THEN <<>>
    ELSE LET m == CHOOSE x \in S : \A y \in S : x <= y
         IN  <<m>> \o Ascending(S \ {m})

\* list_events_since_cursor (mongo.py 123-145): the events of the run after
\* the cursor in the order of (ts, _id); the limit of 200 is above the
\* number of events here
list_events_since_cursor(visible, cursor) ==
    Ascending({e \in visible : e > cursor})

Last(q) == q[Len(q)]

\* the client connects (main.py 262-280): run_events.watch opens the change
\* stream, or raises PyMongoError where change streams are not available
\* and the polling loop starts at the epoch (main.py 332-336)
Connect ==
    /\ s_mode = "idle"
    /\ UNCHANGED <<rvars, gvars, mvars, qvars, dvars, uvars, cvars, tvars, wvars,
                 xvars>>
    /\ \E watch \in BOOLEAN :
         /\ s_mode' = IF watch THEN "backlog" ELSE "poll"
         /\ s_fellback' = ~watch
    /\ UNCHANGED <<s_status, s_wpc, s_stamped, s_visible, s_term, s_cursor,
                   s_changes, s_seen, s_delivered, s_saw_terminal, s_idle,
                   s_gone>>

\* one round of the backlog loop (main.py 282-302): the events after the
\* cursor are yielded and their ids remembered; on an empty answer the loop
\* ends, and the stream too if a terminal message was among them
BacklogRead ==
    /\ s_mode = "backlog"
    /\ UNCHANGED <<rvars, gvars, mvars, qvars, dvars, uvars, cvars, tvars, wvars,
                 xvars>>
    /\ LET events == list_events_since_cursor(s_visible, s_cursor)
       IN  IF events = <<>>
           THEN /\ s_mode' = IF s_saw_terminal THEN "closed" ELSE "live"
                /\ UNCHANGED <<s_cursor, s_seen, s_delivered, s_saw_terminal>>
           ELSE /\ s_cursor' = Last(events)
                /\ s_seen' = s_seen \cup Range(events)
                /\ s_delivered' = s_delivered \o events
                /\ s_saw_terminal' = (s_saw_terminal \/ s_term \in Range(events))
                /\ s_mode' = s_mode
    /\ UNCHANGED <<s_status, s_wpc, s_stamped, s_visible, s_term, s_changes,
                   s_idle, s_fellback, s_gone>>

\* one round of the change-stream loop (main.py 304-330): try_next gives the
\* next insert, which is yielded unless its id was seen, and a terminal
\* message ends the stream; or it gives None, and from the fifth None on the
\* stream ends if the run document is done or error
LiveNext ==
    /\ s_mode = "live"
    /\ UNCHANGED <<rvars, gvars, mvars, qvars, dvars, uvars, cvars, tvars, wvars,
                 xvars>>
    /\ IF s_changes = <<>>
       THEN /\ s_idle' = Min(s_idle + 1, IdleLive)
            /\ s_mode' = IF s_idle + 1 >= IdleLive
                            /\ s_status \in {"done", "error"}
                         THEN "closed" ELSE "live"
            /\ UNCHANGED <<s_changes, s_seen, s_delivered>>
       ELSE LET e == Head(s_changes)
            IN  /\ s_idle' = 0
                /\ s_changes' = Tail(s_changes)
                /\ s_seen' = s_seen \cup {e}
                /\ s_delivered' = IF e \in s_seen THEN s_delivered
                                  ELSE Append(s_delivered, e)
                /\ s_mode' = IF e \notin s_seen /\ e = s_term
                             THEN "closed" ELSE "live"
    /\ UNCHANGED <<s_status, s_wpc, s_stamped, s_visible, s_term, s_cursor,
                   s_saw_terminal, s_fellback, s_gone>>

\* a PyMongoError inside the async with block (list_events_since_cursor,
\* try_next or get_run raises): the except clause starts the polling loop at
\* the epoch (main.py 332-336)
StreamError ==
    /\ Watching
    /\ UNCHANGED <<rvars, gvars, mvars, qvars, dvars, uvars, cvars, tvars, wvars,
                 xvars>>
    /\ s_mode' = "poll"
    /\ s_fellback' = TRUE
    /\ s_cursor' = 0
    /\ s_idle' = 0
    /\ s_changes' = <<>>
    /\ UNCHANGED <<s_status, s_wpc, s_stamped, s_visible, s_term, s_seen,
                   s_delivered, s_saw_terminal, s_gone>>

\* one round of the polling loop (main.py 337-355; api/runs.py 160-184 is
\* the same loop with idle >= 30): the events after the cursor are yielded;
\* on an empty answer idle grows and the stream ends if the run document is
\* done or error and idle has reached its bound
PollRead ==
    /\ s_mode = "poll"
    /\ UNCHANGED <<rvars, gvars, mvars, qvars, dvars, uvars, cvars, tvars, wvars,
                 xvars>>
    /\ LET events == list_events_since_cursor(s_visible, s_cursor)
       IN  IF events = <<>>
           THEN /\ s_idle' = Min(s_idle + 1, IdlePoll)
                /\ s_mode' = IF s_status \in {"done", "error"}
                                /\ s_idle + 1 >= IdlePoll
                             THEN "closed" ELSE "poll"
                /\ UNCHANGED <<s_cursor, s_delivered>>
           ELSE /\ s_idle' = 0
                /\ s_cursor' = Last(events)
                /\ s_delivered' = s_delivered \o events
                /\ s_mode' = s_mode
    /\ UNCHANGED <<s_status, s_wpc, s_stamped, s_visible, s_term, s_changes,
                   s_seen, s_saw_terminal, s_fellback, s_gone>>

\* request.is_disconnected() (main.py 305, 339): the client went away
Disconnect ==
    /\ s_mode \in {"live", "poll"}
    /\ UNCHANGED <<rvars, gvars, mvars, qvars, dvars, uvars, cvars, tvars, wvars,
                 xvars>>
    /\ s_mode' = "closed"
    /\ s_gone' = TRUE
    /\ UNCHANGED <<s_status, s_wpc, s_stamped, s_visible, s_term, s_cursor,
                   s_changes, s_seen, s_delivered, s_saw_terminal, s_idle,
                   s_fellback>>

WriterNext ==
    \/ AppendBegin
    \/ \E e \in 1..(MaxNodeEvents + 1) : AppendLand(e)
    \/ MarkRun
    \/ LogCompleted
    \/ LogFailed

ReaderNext ==
    \/ Connect
    \/ BacklogRead
    \/ LiveNext
    \/ PollRead

StreamNext ==
    \/ WriterNext
    \/ ReaderNext
    \/ StreamError
    \/ Disconnect

\* the event loop runs the run's task and the generator of the stream
\* whenever they can take a step
StreamSpec ==
    /\ StreamInit
    /\ [][StreamNext]_vars
    /\ WF_vars(WriterNext)
    /\ WF_vars(ReaderNext)

NoDup(q) == \A i, j \in 1..Len(q) : i # j => q[i] # q[j]

\* C37: the client receives every event of the run exactly once: no event is
\* yielded twice, and when the server ends the stream every event inserted
\* by a node has been yielded
C37_EveryEventExactlyOnce ==
    /\ NoDup(s_delivered)
    /\ s_mode = "closed" /\ ~s_gone =>
          \A e \in s_visible \ {s_term} : e \in Range(s_delivered)

\* polling alone, no error: the second event was inserted and read before
\* the first, the cursor is past the first and the stream ended without it
C37_SkippedByCursor ==
    /\ s_mode = "closed" /\ ~s_gone
    /\ s_status = "done"
    /\ s_visible = 1..s_stamped
    /\ s_delivered = <<2, 3, 4>>
    /\ s_term = 4

\* the change stream failed after the backlog was yielded and the polling
\* loop yielded it again
C37_DeliveredTwice ==
    /\ s_fellback
    /\ s_delivered = <<1, 2, 1, 2>>

ClosedByServer == s_mode = "closed" /\ ~s_gone

StreamOpen == s_mode \in {"backlog", "live", "poll"}

\* the server ends the stream only after it yielded the terminal log event
TerminalDelivered ==
    ClosedByServer => s_term # 0 /\ s_term \in Range(s_delivered)

\* the server does not end the stream of a run that is queued or running
OpenWhileRunning ==
    ClosedByServer => s_status \in {"done", "error"}

\* the stream of a run that is done or error ends
ClosesAfterTerminal ==
    (StreamOpen /\ s_status \in {"done", "error"}) ~> (s_mode = "closed")

\* C38: the stream of a run that reached done or error eventually closes, it
\* does not close before the terminal log event was delivered, and it stays
\* open while the run is queued or running and the client is connected
C38_StreamClosesAfterTerminalEvent ==
    /\ [](TerminalDelivered /\ OpenWhileRunning)
    /\ ClosesAfterTerminal

\* "Run completed" and the update_run of the except clause both raised: the
\* run document stays done, no terminal event exists and the change-stream
\* loop ended the stream on the status
C38_ClosedWithoutTerminal ==
    /\ ClosedByServer
    /\ ~s_fellback
    /\ s_status = "done"
    /\ s_wpc = "finished"
    /\ s_term = 0
    /\ s_delivered = <<1, 2, 3>>

\* the status was written, the insert of "Run completed" had not completed
\* when the polling loop read its sixth empty answer
C38_ClosedBeforeTerminal ==
    /\ ClosedByServer
    /\ s_fellback
    /\ s_term \in InFlight
    /\ s_delivered = <<1, 2, 3>>

\* ---- TransportAgent.execute and its two sub-searches
\* (agents/transport.py 26-362) ----

\* options the LLM returns for one sub-search
MaxLlmItems == 4

CAR_RESULTS == 3

FLIGHT_RESULTS == 3

Searches == {"car", "flight"}

\* what one sub-search meets: its three Search-Service calls all raise, give
\* no result, give results, or give a result the code cannot read (content
\* null, transport.py 267 and 322); the LLM call raises or returns n options;
\* the flight search needs an origin as well
SearchInputs ==
    [tavily : {"raises", "empty", "items", "malformed"},
     llm : {"ok", "raises"},
     n : 0..MaxLlmItems,
     origin : BOOLEAN]

SubResult(done, exc, n) == [done |-> done, exc |-> exc, n |-> n]

Pending == SubResult(FALSE, FALSE, 0)

ResultCap(k) == IF k = "car" THEN CAR_RESULTS ELSE FLIGHT_RESULTS

\* _search_car_rentals (transport.py 110-174) and _search_flights
\* (transport.py 176-246) with _normalize_cars_with_llm and
\* _normalize_flights_with_llm (248-362): a Search-Service call that raises
\* is skipped (gather with return_exceptions, 144-151 and 216-223), no
\* result gives [], an LLM call that raises gives [] (except clauses at 299
\* and 360); only an exception outside these leaves the coroutine
_search(k, in) ==
    IF k = "flight" /\ ~in.origin THEN SubResult(TRUE, FALSE, 0)
    ELSE CASE in.tavily \in {"raises", "empty"} -> SubResult(TRUE, FALSE, 0)
           [] in.tavily = "malformed" -> SubResult(TRUE, TRUE, 0)
           [] in.llm = "raises" -> SubResult(TRUE, FALSE, 0)
           [] OTHER -> SubResult(TRUE, FALSE, Min(in.n, ResultCap(k)))

TransportResult(status, warns, cars, flights, lists) ==
    [status |-> status, warnings |-> warns, car_rentals |-> cars,
     flights |-> flights, lists |-> lists]

\* BaseAgent._failed_result (base.py 43-50) as execute returns it
TransportFailed(message) == TransportResult("failed", <<message>>, 0, 0, FALSE)

\* an execute that fails when either sub-search raised
TransportExecute_strict(car, flight) ==
    IF car.exc \/ flight.exc
    THEN TransportFailed("Both transport searches failed")
    ELSE TransportResult("completed", <<>>, car.n, flight.n, TRUE)

\* execute after the gather (transport.py 56-99)
TransportExecute(car, flight) ==
    IF car.exc /\ flight.exc
    THEN TransportFailed("Both transport searches failed")
    ELSE TransportResult(
           IF car.exc \/ flight.exc THEN "partial" ELSE "completed",
           (IF car.exc THEN <<"Car rental search failed">> ELSE <<>>)
             \o (IF flight.exc THEN <<"Flight search failed">> ELSE <<>>),
           IF car.exc THEN 0 ELSE car.n,
           IF flight.exc THEN 0 ELSE flight.n,
           TRUE)

XInit ==
    /\ x_pc = "start"
    /\ x_dest \in BOOLEAN
    /\ x_in \in [Searches -> SearchInputs]
    /\ x_in["car"].origin
    /\ x_res = [k \in Searches |-> Pending]
    /\ x_out = <<>>

\* execute up to the gather (transport.py 34-51): without a destination the
\* failure result is returned and no search starts
TransportStart ==
    /\ x_pc = "start"
    /\ UNCHANGED <<rvars, gvars, mvars, qvars, dvars, uvars, cvars, tvars, wvars,
                 svars>>
    /\ IF x_dest
       THEN x_pc' = "gather" /\ x_out' = x_out
       ELSE /\ x_pc' = "returned"
            /\ x_out' = TransportFailed("Missing or invalid destination")
    /\ UNCHANGED <<x_dest, x_in, x_res>>

\* one of the two coroutines of the gather ends (transport.py 50-54)
SearchEnds(k) ==
    /\ x_pc = "gather"
    /\ UNCHANGED <<rvars, gvars, mvars, qvars, dvars, uvars, cvars, tvars, wvars,
                 svars>>
    /\ ~x_res[k].done
    /\ x_res' = [x_res EXCEPT ![k] = _search(k, x_in[k])]
    /\ UNCHANGED <<x_pc, x_dest, x_in, x_out>>

\* both ended: the gather returns and execute builds its result
TransportReturns ==
    /\ x_pc = "gather"
    /\ UNCHANGED <<rvars, gvars, mvars, qvars, dvars, uvars, cvars, tvars, wvars,
                 svars>>
    /\ \A k \in Searches : x_res[k].done
    /\ x_out' = TransportExecute(x_res["car"], x_res["flight"])
    /\ x_pc' = "returned"
    /\ UNCHANGED <<x_dest, x_in, x_res>>

TransportInit ==
    /\ XInit
    /\ RIdle /\ GIdle /\ MIdle /\ QIdle /\ DIdle /\ UIdle /\ CIdle /\ TIdle
    /\ WIdle /\ SIdle

TransportNext ==
    \/ TransportStart
    \/ \E k \in Searches : SearchEnds(k)
    \/ TransportReturns

TransportSpec == TransportInit /\ [][TransportNext]_vars

C40_PipelineOrder ==
    /\ \A p \in Producers : runs[p] > 0 => npc["ParseRequest"] = "ended"
    /\ runs["AggregateResults"] > 0 => npc["EnrichmentAgent"] = "ended"
    /\ \A n \in Nodes : runs[n] <= 1
    /\ \A n \in Nodes : nout[n].status = "done" => n = "AggregateResults"
    /\ has_final =>
          /\ npc["AggregateResults"] = "ended"
          /\ nout["AggregateResults"].status = "done"

C40_Witness ==
    /\ task = "returned"
    /\ has_final
    /\ \A n \in Nodes : runs[n] = 1 /\ npc[n] = "ended"
    /\ nout["EnrichmentAgent"].status = "partial"
    /\ g_items["HotelAgent"] = MaxProduced

====
